---- MODULE Spec2Model ----
(***************************************************************************)
(* cachalot: the single-tier cache managers (Read-Through, Write-Through,  *)
(* Refresh-Ahead), their Bloom pre-check, the Record/Tag storage wrapper,  *)
(* the stampede-protected recompute and the multi-level manager, as a      *)
(* state machine.                                                          *)
(*                                                                         *)
(* One step of a client is one awaited boundary point of the code (a       *)
(* Storage call, a lock primitive, the end of an executor) together with   *)
(* the synchronous code that follows it up to the next await.              *)
(***************************************************************************)
EXTENDS Integers, Sequences, FiniteSets, TLC

VARIABLES
    manager,      \* the discipline of the manager under test (fixed at construction)
    bloomEnabled, \* options.enableBloomFilter && options.bloomFilterOptions
    now,          \* Date.now(), in clock units
    store,        \* key -> Record envelope held by the storage, or NoRecord
    tagStore,     \* tag name -> version, or NoTag
    locks,        \* lock key -> lock record of the lock store
    bitArray,     \* BloomFilter.bitArray, as the set of bit indices that are 1
    elementCount, \* BloomFilter.elementCount
    pc,           \* client -> the await point its current call stands at
    ctx,          \* client -> locals of its current call, and its outcome once it is over
    bg,           \* client -> the background refresh its last get fired (Refresh-Ahead)
    faults,       \* number of transient Storage failures injected so far
    levels,       \* MultiLevelManager.levels in priority order: level -> its flag, ttl and items
    options,      \* the constructor's options: the levels as passed, the fallbackStrategy,
                  \* the refreshAheadFactor as passed
    metrics,      \* MultiLevelManager.metrics: level name -> its counters
    hist          \* key -> history of the key (bookkeeping for the properties)

vars == <<manager, bloomEnabled, now, store, tagStore, locks, bitArray,
          elementCount, pc, ctx, bg, faults, levels, options, metrics, hist>>

----------------------------------------------------------------------------
(* Bounds of the model *)

MaxTime == 2
MaxFaults == 1
MaxPolls == 2

\* the clients; each issues one call, a get or a set
Procs == {1, 2}

\* the clients are numbered in the order in which their calls start
Starts(p) == \A q \in Procs : q < p => pc[q] # "idle"

----------------------------------------------------------------------------
(* Keys, tags, values *)

\* the key "a" as its sequence of char codes (String.charCodeAt)
KeyA == <<97>>
Keys == {KeyA}
Tags == {"t"}

\* lock keys: the key itself for the recompute, refreshAhead:<key> for the refresh
LockOf(k) == <<"key", k>>
RefreshAheadKey(k) == <<"refreshAhead", k>>
LockKeys == {LockOf(k) : k \in Keys} \cup {RefreshAheadKey(k) : k \in Keys}

\* the value undefined, and what serialize makes of it (JSON.stringify gives
\* undefined, not a string)
Undefined == -1
NoPayload == <<>>
NoRecord == [kind |-> "none"]
NoTag == -1

\* the value the executor of client p produces / client p passes to set
ExecValue(p) == 10 + p
SetValue(p) == 100

\* expiresIn of the calls of the model, and the option sets the calls draw from
ExpiresIn == 1
TagOptions == {Tags}
Strategies == {"waitForResult", "runExecutor"}

\* lock TTL (lockExpireTimeout), in clock units
LockExpire == 2

\* the adds made to a Bloom filter on its own
MaxAdds == 3

\* refreshAheadFactor as a fraction: DEFAULT_REFRESH_AHEAD_FACTOR, 0.8
FactorNum == 4
FactorDen == 5

----------------------------------------------------------------------------
(* serialize / deserialize hooks: JSON.stringify / JSON.parse *)

serialize(v) == IF v = Undefined THEN NoPayload ELSE <<v>>
deserialize(s) == IF s = NoPayload THEN Undefined ELSE s[1]

----------------------------------------------------------------------------
(* Bloom filter *)

\* size and hashCount for the managers' defaults (expectedElements 10000,
\* falsePositiveRate 0.01): ceil(-n ln p / (ln 2)^2) and ceil((m/n) ln 2)
BloomSize == 95851
BloomHashCount == 7

Abs(x) == IF x < 0 THEN -x ELSE x

RECURSIVE hashFrom(_, _, _)
hashFrom(key, i, h) ==
    IF i > Len(key) THEN h
    ELSE hashFrom(key, i + 1, (h * 32 - h + key[i]))

\* hash(key, seed): ((hash << 5) - hash + char) & 0xffffffff over the chars;
\* for the keys of the model the value stays below 2^31, where the mask is
\* the identity
hash(key, seed) == Abs(hashFrom(key, 1, seed))

getHashes(key) == [i \in 0..(BloomHashCount - 1) |-> hash(key, i)]

BitsOf(key) == {getHashes(key)[i] % BloomSize : i \in 0..(BloomHashCount - 1)}

\* an add that would set the bit of the first hash only
BloomAddFirstBit(bits, key) == bits \cup {getHashes(key)[0] % BloomSize}

\* add(key): the bit array after the call
BloomAdd(bits, key) == bits \cup BitsOf(key)

mightContain(bits, key) == BitsOf(key) \subseteq bits

----------------------------------------------------------------------------
(* Record model and the storage wrapper *)

NewRecord(v, tags, opts, t) ==
    [kind |-> "rec", value |-> serialize(v), createdAt |-> t,
     expiresIn |-> opts.expiresIn, permanent |-> opts.permanent, tags |-> tags]

\* getTags: the current version of every named tag, a missing tag filled at now
getTags(names, t) ==
    [n \in names |-> IF tagStore[n] = NoTag THEN t ELSE tagStore[n]]

\* isOutdated: some tag of the record has a current version strictly greater
\* than the version the record captured
isOutdated(rec) ==
    \E n \in DOMAIN rec.tags :
        tagStore[n] # NoTag /\ tagStore[n] > rec.tags[n]

\* time-valid: permanent, or now <= createdAt + expiresIn
TimeValid(rec, t) ==
    rec # NoRecord /\ (rec.permanent \/ t <= rec.createdAt + rec.expiresIn)

\* the read falls on the last instant of the Record's life
AtExpiry(rec, t) ==
    rec # NoRecord /\ ~rec.permanent /\ t = rec.createdAt + rec.expiresIn

\* a variant of isRecordValid that already expires the Record at
\* createdAt + expiresIn
isRecordValidStrict(rec, t) ==
    IF rec = NoRecord THEN FALSE
    ELSE LET recordExpireDate == rec.createdAt + rec.expiresIn
             isExpired == ~rec.permanent /\ t >= recordExpireDate
         IN  IF isExpired THEN FALSE ELSE rec.value # NoPayload

\* ReadThroughManager.isRecordValid / RefreshAheadManager.isRecordValid
isRecordValid(rec, t) ==
    IF rec = NoRecord THEN FALSE
    ELSE LET recordExpireDate == rec.createdAt + rec.expiresIn
             isExpired == ~rec.permanent /\ t > recordExpireDate
         IN  IF isExpired THEN FALSE ELSE rec.value # NoPayload

\* a Write-Through check that would look at the expiry as Read-Through does
isRecordValidWTTimed(rec) == isRecordValid(rec, now)

\* WriteThroughManager.isRecordValid
isRecordValidWT(rec) ==
    IF rec = NoRecord THEN FALSE ELSE rec.value # NoPayload

\* A refreshAheadFactor is a number of FactorDen-ths; the caller may pass none,
\* or Infinity
NoFactor == -100
Infinity == 100
PassedFactors == {NoFactor, 0 - 1, 0, FactorDen, FactorDen + 1, Infinity}

isFinite(f) == f # Infinity

\* options.refreshAheadFactor || DEFAULT_REFRESH_AHEAD_FACTOR: a factor that is
\* absent or 0 is falsy and gives the default
KeptFactor(f) == IF f \in {NoFactor, 0} THEN FactorNum ELSE f

\* this.refreshAheadFactor
refreshAheadFactor == KeptFactor(options.refreshAheadFactor)

\* the constructor throws: the factor it kept is finite and is <= 0 or >= 1
FactorRejected(f) ==
    isFinite(KeptFactor(f)) /\ (KeptFactor(f) <= 0 \/ KeptFactor(f) >= FactorDen)

\* a variant of isRecordExpireSoon that waits for the expiry itself
isRecordExpireSoonAtExpiry(rec, t) ==
    IF rec = NoRecord THEN FALSE
    ELSE ~rec.permanent /\ t > rec.createdAt + rec.expiresIn

\* RefreshAheadManager.isRecordExpireSoon:
\* Number(createdAt + expiresIn * factor) || 0, then the comparison
isRecordExpireSoon(rec, t) ==
    IF rec = NoRecord THEN FALSE
    ELSE IF isFinite(refreshAheadFactor)
    THEN ~rec.permanent
         /\ t * FactorDen > rec.createdAt * FactorDen + rec.expiresIn * refreshAheadFactor
    ELSE IF rec.expiresIn = 0 THEN ~rec.permanent /\ t > 0
    ELSE FALSE

\* the validity test of the manager's get
ManagerValid(rec, t) ==
    IF manager = "write-through" THEN isRecordValidWT(rec) ELSE isRecordValid(rec, t)

\* a set that would hand the caller's options on as they came
ManagerSetOptionsAsGiven(opts) == opts

\* the options the manager's set hands to storage.set
ManagerSetOptions(opts) ==
    IF manager = "write-through" THEN [opts EXCEPT !.permanent = TRUE] ELSE opts

----------------------------------------------------------------------------
(* State after construction *)

SingleTier == {"read-through", "write-through", "refresh-ahead"}
Managers == SingleTier \cup {"multi-level"}

\* no manager: the constructor threw, or a component is used on its own
NoManager == "none"

\* the positions of this.levels, in priority order
Levels == {1, 2}
PastLevels == 3

\* a level without ttl, an item without expiresAt, options without expiresIn,
\* a key a level does not hold
NoTtl == -1
NoExpiresAt == -1
NoExpiresIn == -1
NoItem == [kind |-> "none"]

\* the value a level's storage may hold before the manager is built
StoredValue == 5

\* the CacheLevel objects handed to the constructor: level i has name Li and
\* priority i, the first has a ttl of its own, the second has none
LevelName(i) == IF i = 1 THEN "L1" ELSE "L2"
LevelTtl(i) == IF i = 1 THEN ExpiresIn ELSE NoTtl
CacheLevel(i, items) ==
    [name |-> LevelName(i), priority |-> i, ttl |-> LevelTtl(i),
     enabled |-> TRUE, items |-> items]
EmptyStorage == [k \in Keys |-> NoItem]
NewLevel(i) == CacheLevel(i, EmptyStorage)

\* [...options.levels].sort((a, b) => a.priority - b.priority): a stable sort
RECURSIVE Insert(_, _)
Insert(x, s) ==
    IF s = <<>> THEN <<x>>
    ELSE IF x.priority < Head(s).priority THEN <<x>> \o s
    ELSE <<Head(s)>> \o Insert(x, Tail(s))

\* the levels kept in the order they were passed
PassedOrder(ls) == ls

RECURSIVE SortByPriority(_)
SortByPriority(ls) ==
    IF ls = <<>> THEN <<>>
    ELSE Insert(ls[Len(ls)], SortByPriority(SubSeq(ls, 1, Len(ls) - 1)))

\* this.metrics after the constructor: a zero counter set per level name
NoCounts == [hits |-> 0, misses |-> 0, sets |-> 0, dels |-> 0]
NewMetrics(ls) == [n \in {ls[i].name : i \in DOMAIN ls} |-> NoCounts]

\* the names of the levels, in the order they were passed
NamesOf(ls) == [i \in DOMAIN ls |-> ls[i].name]

FallbackStrategies == {"executor", "next-level", "fail"}

\* the default construction: two empty levels passed in priority order, and
\* the executor fallback
NewLevels == SortByPriority(<<NewLevel(1), NewLevel(2)>>)
NewOptions ==
    [levels |-> <<"L1", "L2">>, fallbackStrategy |-> "executor",
     refreshAheadFactor |-> NoFactor]

EmptyTags == [n \in {} |-> 0]

DefaultOptions == [expiresIn |-> ExpiresIn, permanent |-> FALSE, tags |-> {}]

\* locals of a call that has not started
NoCall ==
    [op |-> "none", key |-> KeyA, strategy |-> "waitForResult",
     opts |-> DefaultOptions, rec |-> NoRecord, tags |-> EmptyTags,
     value |-> 0, polls |-> 0, level |-> 0, execError |-> FALSE,
     outcome |-> "none", result |-> 0,
     \* bookkeeping of the path the call took
     bloomNeg |-> FALSE, readFailed |-> FALSE, lockTried |-> FALSE,
     locked |-> FALSE, lockMissed |-> FALSE, exhausted |-> FALSE,
     released |-> FALSE, relFailed |-> FALSE, wrote |-> FALSE,
     execs |-> 0, failed |-> FALSE, sawTouched |-> FALSE, sawLater |-> FALSE,
     sawFill |-> FALSE, fillValue |-> 0, afterFailure |-> FALSE,
     sawValid |-> FALSE, sawBoundary |-> FALSE, sawOutdated |-> "unknown",
     \* a touch of the call's tags completed while its executor was under way
     overtaken |-> FALSE,
     \* locals and bookkeeping of a multi-level call
     success |-> FALSE, usedExpiresIn |-> 0, ret |-> NoRecord, hit |-> 0,
     reads |-> <<>>, skipped |-> {}, sets |-> <<>>, dels |-> <<>>,
     warmed |-> {}, seenEnabled |-> {}, setSkipped |-> {}, quiet |-> FALSE]

NoLock == [held |-> FALSE, owner |-> 0, expiresAt |-> 0]

NoRefresh == [pc |-> "idle", key |-> KeyA, opts |-> DefaultOptions,
              tags |-> EmptyTags, value |-> 0,
              \* bookkeeping of the path the refresh took
              locked |-> FALSE, execError |-> FALSE, wrote |-> FALSE,
              released |-> FALSE, relFailed |-> FALSE,
              \* the clock reading at which its executor was started
              at |-> 0,
              \* a touch of its tags completed while its executor was under way
              overtaken |-> FALSE]

NoFill == [on |-> FALSE, value |-> 0, at |-> -1]

NoHist == [execs |-> 0, refreshes |-> 0, writes |-> 0, overlap |-> FALSE, touched |-> FALSE, later |-> FALSE,
           fill |-> NoFill,
           \* the touches that overtake an executor of the key are recorded,
           \* and the Record stored holds the value of such an executor
           watch |-> FALSE, overtaken |-> FALSE]

Init ==
    /\ manager \in Managers
    /\ levels = NewLevels
    /\ options = NewOptions
    /\ metrics = NewMetrics(levels)
    /\ bloomEnabled \in BOOLEAN
    /\ now = 0
    /\ store = [k \in Keys |-> NoRecord]
    /\ tagStore = [n \in Tags |-> NoTag]
    /\ locks = [l \in LockKeys |-> NoLock]
    /\ bitArray = {}
    /\ elementCount = 0
    /\ pc = [p \in Procs |-> "idle"]
    /\ ctx = [p \in Procs |-> NoCall]
    /\ bg = [p \in Procs |-> NoRefresh]
    /\ faults = 0
    /\ hist = [k \in Keys |-> NoHist]

\* A manager may be built over a storage that is shared or that outlived an
\* earlier process: the key is absent, or holds the Record an earlier manager
\* wrote at time 0 with the default options under the tag
StoredRecord == NewRecord(StoredValue, [n \in Tags |-> 0], DefaultOptions, 0)

\* the same Record written with permanent: true
StoredPermanent == [StoredRecord EXCEPT !.permanent = TRUE]

SharedStoreInit ==
    /\ manager \in Managers
    /\ levels = NewLevels
    /\ options = NewOptions
    /\ metrics = NewMetrics(levels)
    /\ bloomEnabled \in BOOLEAN
    /\ now = 0
    /\ store \in [Keys -> {NoRecord, StoredRecord}]
    /\ tagStore = [n \in Tags |-> NoTag]
    /\ locks = [l \in LockKeys |-> NoLock]
    /\ bitArray = {}
    /\ elementCount = 0
    /\ pc = [p \in Procs |-> "idle"]
    /\ ctx = [p \in Procs |-> NoCall]
    /\ bg = [p \in Procs |-> NoRefresh]
    /\ faults = 0
    /\ hist = [k \in Keys |-> NoHist]

----------------------------------------------------------------------------
(* Helpers of the actions *)

\* a transient Storage failure may be injected while the budget lasts
MayFail(fail) == fail => faults < MaxFaults
Faults(fail) == IF fail THEN faults + 1 ELSE faults

\* a lock store that would take a lock for expired one tick early
IsLockedEarly(l) == locks[l].held /\ now + 1 < locks[l].expiresAt

\* the lock store: a lock is in force until it is released or its TTL is over
IsLocked(l) == locks[l].held /\ now < locks[l].expiresAt
Acquire(l, p) == [locks EXCEPT ![l] = [held |-> TRUE, owner |-> p,
                                       expiresAt |-> now + LockExpire]]
Release(l) == [locks EXCEPT ![l] = NoLock]

\* bloomFilter.add(key) of a manager that holds a Bloom filter
BloomBits(k) == IF bloomEnabled THEN BloomAdd(bitArray, k) ELSE bitArray
BloomCount == IF bloomEnabled THEN elementCount + 1 ELSE elementCount

\* what isOutdated has to answer for the Record, for the bookkeeping
Outdated(rec) == IF isOutdated(rec) THEN "yes" ELSE "no"

\* a Record is fresh: time-valid and tag-valid
IsFresh(rec, t) == isRecordValid(rec, t) /\ ~isOutdated(rec)

\* one more executor invocation for the key
CountExec(k) == [hist EXCEPT ![k].execs = @ + 1]

\* a new Record for the key: the touches seen so far are behind it
CountWrite(k) == [hist EXCEPT ![k].writes = @ + 1, ![k].touched = FALSE,
                              ![k].later = FALSE, ![k].fill = NoFill,
                              ![k].overtaken = FALSE]

\* the Record written holds the value of an executor a touch has overtaken
CountOvertaken(k, overtaken) == [CountWrite(k) EXCEPT ![k].overtaken = overtaken]

\* the get of client p that now ends is the only call issued so far, so it ran alone on
\* an empty store, no touch came in between and it got value v from its
\* executor: from now on the key counts as filled with v, until a touch or
\* another write
FillAfter(h, p, c, ok, v) ==
    IF /\ c.op = "get" /\ ok /\ ~c.failed /\ h[c.key].fill.at >= 0
       /\ \A q \in Procs \ {p} : pc[q] = "idle"
    THEN [h EXCEPT ![c.key].fill = [on |-> TRUE, value |-> v, at |-> @.at]]
    ELSE h

----------------------------------------------------------------------------
(* get of the single-tier managers *)

\* the Bloom pre-check answers "definitely not there"
BloomNegative(k) == bloomEnabled /\ ~mightContain(bitArray, k)

\* where get goes once storage.get has returned rec: a valid Record is served
\* at once by Write-Through and after the isOutdated check by the others, an
\* invalid one goes to updateCacheAndGetResult
AfterRead(rec, t) ==
    IF ManagerValid(rec, t)
    THEN IF manager = "write-through" THEN "hit" ELSE "isOutdated"
    ELSE "lockKey"

\* a variant of get that serves the Record whatever isOutdated answers
AfterOutdatedServe(outdated) == "hit"

\* where get goes once isOutdated has answered
AfterOutdated(outdated) == IF outdated THEN "lockKey" ELSE "hit"

\* the call of client p is over
Finish(c, outcome, result) ==
    [c EXCEPT !.outcome = outcome, !.result = result, !.rec = NoRecord,
              !.tags = EmptyTags, !.opts = DefaultOptions, !.polls = 0,
              !.level = 0, !.value = 0]

\* an executor started for the key before has failed: one of a get that is
\* over, or one of a background refresh
FailedBefore(k) ==
    \/ \E q \in Procs : pc[q] = "done" /\ ctx[q].op = "get" /\ ctx[q].key = k
                         /\ ctx[q].execError
    \/ \E q \in Procs : bg[q].key = k /\ bg[q].execError /\ bg[q].released

\* get(key, executor, options): Bloom pre-check, storage.get, isRecordValid
Get(p) ==
    /\ manager \in SingleTier
    /\ pc[p] = "idle"
    /\ Starts(p)
    /\ \E k \in Keys, st \in Strategies, tg \in TagOptions, fail \in BOOLEAN :
        LET c0 == [NoCall EXCEPT !.op = "get", !.key = k, !.strategy = st,
                                 !.opts = [DefaultOptions EXCEPT !.tags = tg],
                                 !.afterFailure = FailedBefore(k),
                                 !.sawTouched = hist[k].touched,
                                 !.sawLater = hist[k].later,
                                 !.sawFill = hist[k].fill.on
                                             /\ now <= hist[k].fill.at + ExpiresIn,
                                 !.fillValue = hist[k].fill.value,
                                 !.sawValid = TimeValid(store[k], now)
                                              /\ store[k].value # NoPayload,
                                 !.sawBoundary = AtExpiry(store[k], now)]
            rec == store[k]
            next == AfterRead(rec, now)
            inFlight == \E q \in Procs \ {p} :
                            /\ pc[q] \notin {"idle", "done"}
                            /\ ctx[q].op = "get" /\ ctx[q].key = k
            h0 == IF \A q \in Procs : pc[q] = "idle"
                  THEN [hist EXCEPT ![k].fill.at = now]
                  ELSE [hist EXCEPT ![k].overlap = @ \/ inFlight]
        IN
        /\ MayFail(fail)
        /\ IF BloomNegative(k)
           THEN /\ ~fail
                /\ pc' = [pc EXCEPT ![p] = "execDirect"]
                /\ ctx' = [ctx EXCEPT ![p] = [c0 EXCEPT !.bloomNeg = TRUE, !.execs = 1]]
                /\ hist' = [h0 EXCEPT ![k].execs = @ + 1]
                /\ UNCHANGED <<bitArray, elementCount, faults>>
           ELSE IF fail
           THEN /\ pc' = [pc EXCEPT ![p] = "execDirect"]
                /\ ctx' = [ctx EXCEPT ![p] = [c0 EXCEPT !.readFailed = TRUE,
                                                        !.failed = TRUE, !.execs = 1]]
                /\ hist' = [h0 EXCEPT ![k].execs = @ + 1]
                /\ faults' = faults + 1
                /\ UNCHANGED <<bitArray, elementCount>>
           ELSE IF next = "hit"
           THEN /\ pc' = [pc EXCEPT ![p] = "done"]
                /\ ctx' = [ctx EXCEPT ![p] =
                             Finish([c0 EXCEPT !.rec = rec], "hit", deserialize(rec.value))]
                /\ bitArray' = BloomBits(k)
                /\ elementCount' = BloomCount
                /\ hist' = h0
                /\ faults' = faults
           ELSE /\ pc' = [pc EXCEPT ![p] = next]
                /\ ctx' = [ctx EXCEPT ![p] = [c0 EXCEPT !.rec = rec]]
                /\ hist' = h0
                /\ UNCHANGED <<bitArray, elementCount, faults>>
    /\ UNCHANGED <<options, metrics, levels, manager, bloomEnabled, now, store, tagStore, locks, bg>>

\* the background refresh a Refresh-Ahead hit fires
SpawnRefresh(p, c) ==
    IF manager = "refresh-ahead" /\ isRecordExpireSoon(c.rec, now)
    THEN [bg EXCEPT ![p] = [NoRefresh EXCEPT !.pc = "lockKey", !.key = c.key,
                                             !.opts = c.opts]]
    ELSE bg

\* await storage.isOutdated(record): not caught by get
IsOutdatedStep(p) ==
    /\ pc[p] = "isOutdated"
    /\ \E fail \in BOOLEAN :
        LET c == ctx[p]
            next == AfterOutdated(isOutdated(c.rec))
        IN
        /\ MayFail(fail)
        /\ faults' = Faults(fail)
        /\ IF fail
           THEN /\ pc' = [pc EXCEPT ![p] = "done"]
                /\ ctx' = [ctx EXCEPT ![p] =
                             Finish([c EXCEPT !.failed = TRUE, !.sawOutdated = "failed"],
                                    "storageError", 0)]
                /\ UNCHANGED <<bitArray, elementCount, bg>>
           ELSE IF next = "hit"
           THEN /\ pc' = [pc EXCEPT ![p] = "done"]
                /\ ctx' = [ctx EXCEPT ![p] =
                             Finish([c EXCEPT !.sawOutdated = Outdated(c.rec)],
                                    "hit", deserialize(c.rec.value))]
                /\ bitArray' = BloomBits(c.key)
                /\ elementCount' = BloomCount
                /\ bg' = SpawnRefresh(p, c)
           ELSE /\ pc' = [pc EXCEPT ![p] = next]
                /\ ctx' = [ctx EXCEPT ![p] = [c EXCEPT !.sawOutdated = Outdated(c.rec)]]
                /\ UNCHANGED <<bitArray, elementCount, bg>>
    /\ UNCHANGED <<options, metrics, levels, manager, bloomEnabled, now, store, tagStore, locks, hist>>

----------------------------------------------------------------------------
(* BaseManager.updateCacheAndGetResult: the stampede-protected recompute *)

\* a variant in which a caller that did not get the lock never waits
AfterLockNoWait(acquired, st) ==
    IF acquired THEN "execLocked" ELSE "execDirect"

\* a variant in which the runExecutor caller that did not get the lock goes
\* on like the holder
AfterLockLoserHolds(acquired, st) ==
    IF acquired \/ st = "runExecutor" THEN "execLocked" ELSE "wait"

\* where the recompute goes once lockKey has answered
AfterLock(acquired, st) ==
    IF acquired THEN "execLocked"
    ELSE IF st = "waitForResult" THEN "wait" ELSE "execDirect"

\* a variant in which the executor's error leaves get at once
AfterExecutorNoRelease(ok) == IF ok THEN "setTags" ELSE "done"

\* where the lock holder goes once its executor is over
AfterExecutor(ok) == IF ok THEN "setTags" ELSE "releaseKey"

\* where a write goes next: the write-back of a get ends in releaseKey
\* whether it worked or not, a failed set of the caller is raised
AfterWrite(op) ==
    IF op = "get" THEN "releaseKey" ELSE "done"

\* a variant in which the wait has no bound
WaitNeverExhausted(polls) == FALSE

\* the waiter has polled often enough
WaitExhausted(polls) == polls >= MaxPolls

\* 1. attempt lockKey(key)
LockKeyStep(p) ==
    /\ pc[p] = "lockKey"
    /\ \E fail \in BOOLEAN :
        LET c == ctx[p]
            l == LockOf(c.key)
            acquired == ~IsLocked(l)
            next == IF fail THEN "execDirect" ELSE AfterLock(acquired, c.strategy)
            runs == next \in {"execLocked", "execDirect"}
        IN
        /\ MayFail(fail)
        /\ faults' = Faults(fail)
        /\ pc' = [pc EXCEPT ![p] = next]
        /\ locks' = IF ~fail /\ acquired THEN Acquire(l, p) ELSE locks
        /\ ctx' = [ctx EXCEPT ![p] =
                     [c EXCEPT !.lockTried = TRUE,
                               !.failed = @ \/ fail,
                               !.locked = ~fail /\ acquired,
                               !.lockMissed = ~fail /\ ~acquired,
                               !.execs = IF runs THEN @ + 1 ELSE @]]
        /\ hist' = IF runs THEN CountExec(c.key) ELSE hist
    /\ UNCHANGED <<options, metrics, levels, manager, bloomEnabled, now, store, tagStore, bitArray,
                   elementCount, bg>>

\* 2. the lock holder's executor returns or throws
ExecLockedFinish(p) ==
    /\ pc[p] = "execLocked"
    /\ \E ok \in BOOLEAN :
        /\ pc' = [pc EXCEPT ![p] = AfterExecutor(ok)]
        /\ ctx' = [ctx EXCEPT ![p] =
                     [@ EXCEPT !.execError = ~ok,
                               !.value = IF ok THEN ExecValue(p) ELSE 0]]
    /\ UNCHANGED <<options, metrics, levels, manager, bloomEnabled, now, store, tagStore, locks, bitArray,
                   elementCount, bg, faults, hist>>

\* storage.set, first half: resolve the tags and fetch their current versions
SetTags(p) ==
    /\ pc[p] = "setTags"
    /\ \E fail \in BOOLEAN :
        LET c == ctx[p] IN
        /\ MayFail(fail)
        /\ faults' = Faults(fail)
        /\ IF fail
           THEN /\ pc' = [pc EXCEPT ![p] = AfterWrite(c.op)]
                /\ ctx' = [ctx EXCEPT ![p] =
                             IF c.op = "get" THEN [c EXCEPT !.failed = TRUE]
                             ELSE Finish([c EXCEPT !.failed = TRUE], "storageError", 0)]
           ELSE /\ pc' = [pc EXCEPT ![p] = "setWrite"]
                /\ ctx' = [ctx EXCEPT ![p] = [c EXCEPT !.tags = getTags(c.opts.tags, now)]]
    /\ UNCHANGED <<options, metrics, levels, manager, bloomEnabled, now, store, tagStore, locks, bitArray,
                   elementCount, bg, hist>>

\* storage.set, second half: compose the Record and write it; then the
\* manager's set adds the key to the Bloom filter
SetWrite(p) ==
    /\ pc[p] = "setWrite"
    /\ \E fail \in BOOLEAN :
        LET c == ctx[p]
            rec == NewRecord(c.value, c.tags, ManagerSetOptions(c.opts), now)
        IN
        /\ MayFail(fail)
        /\ faults' = Faults(fail)
        /\ pc' = [pc EXCEPT ![p] = AfterWrite(c.op)]
        /\ IF fail
           THEN /\ ctx' = [ctx EXCEPT ![p] =
                             IF c.op = "get" THEN [c EXCEPT !.failed = TRUE]
                             ELSE Finish([c EXCEPT !.failed = TRUE], "storageError", 0)]
                /\ UNCHANGED <<store, bitArray, elementCount, hist>>
           ELSE /\ store' = [store EXCEPT ![c.key] = rec]
                /\ hist' = CountOvertaken(c.key, c.op = "get" /\ c.overtaken)
                /\ bitArray' = BloomBits(c.key)
                /\ elementCount' = BloomCount
                /\ ctx' = [ctx EXCEPT ![p] =
                             IF c.op = "get" THEN [c EXCEPT !.wrote = TRUE]
                             ELSE Finish([c EXCEPT !.wrote = TRUE], "set", c.value)]
    /\ UNCHANGED <<options, metrics, levels, manager, bloomEnabled, now, tagStore, locks, bg>>

\* releaseKey(key), on success and on executor failure alike; the caller gets
\* the executor's value or the executor's error
ReleaseKey(p) ==
    /\ pc[p] = "releaseKey"
    /\ \E fail \in BOOLEAN :
        LET c == ctx[p] IN
        /\ MayFail(fail)
        /\ faults' = Faults(fail)
        /\ pc' = [pc EXCEPT ![p] = "done"]
        /\ locks' = IF fail THEN locks ELSE Release(LockOf(c.key))
        /\ ctx' = [ctx EXCEPT ![p] =
                     Finish([c EXCEPT !.released = TRUE, !.relFailed = fail,
                                      !.failed = @ \/ fail],
                            IF c.execError THEN "executorError" ELSE "executor",
                            c.value)]
        /\ hist' = FillAfter(hist, p, [c EXCEPT !.failed = @ \/ fail], ~c.execError, c.value)
    /\ UNCHANGED <<options, metrics, levels, manager, bloomEnabled, now, store, tagStore, bitArray,
                   elementCount, bg>>

\* 3. waitForResult: poll get(key); a fresh Record is returned as soon as it
\* appears, an exhausted wait falls through to the executor
WaitPoll(p) ==
    /\ pc[p] = "wait"
    /\ \E fail \in BOOLEAN :
        LET c == ctx[p]
            rec == store[c.key]
            found == ~fail /\ IsFresh(rec, now)
        IN
        /\ MayFail(fail)
        /\ faults' = Faults(fail)
        /\ IF found
           THEN /\ pc' = [pc EXCEPT ![p] = "done"]
                /\ ctx' = [ctx EXCEPT ![p] =
                             Finish([c EXCEPT !.rec = rec], "waited", deserialize(rec.value))]
                /\ hist' = hist
           ELSE IF WaitExhausted(c.polls + 1)
           THEN /\ pc' = [pc EXCEPT ![p] = "execDirect"]
                /\ ctx' = [ctx EXCEPT ![p] =
                             [c EXCEPT !.polls = @ + 1, !.exhausted = TRUE,
                                       !.failed = @ \/ fail, !.execs = @ + 1]]
                /\ hist' = CountExec(c.key)
           ELSE /\ pc' = pc
                /\ ctx' = [ctx EXCEPT ![p] =
                             [c EXCEPT !.polls = IF @ < MaxPolls THEN @ + 1 ELSE @,
                                       !.failed = @ \/ fail]]
                /\ hist' = hist
    /\ UNCHANGED <<options, metrics, levels, manager, bloomEnabled, now, store, tagStore, locks, bitArray,
                   elementCount, bg>>

\* runExecutor(executor) without the lock: its result goes to the caller and
\* nothing is written
ExecDirectFinish(p) ==
    /\ pc[p] = "execDirect"
    /\ \E ok \in BOOLEAN :
        /\ pc' = [pc EXCEPT ![p] = "done"]
        /\ ctx' = [ctx EXCEPT ![p] =
                     Finish([@ EXCEPT !.execError = ~ok,
                                      !.value = IF ok THEN ExecValue(p) ELSE 0],
                            IF ok THEN "executor" ELSE "executorError",
                            IF ok THEN ExecValue(p) ELSE 0)]
        /\ hist' = FillAfter(hist, p, ctx[p], ok, ExecValue(p))
    /\ UNCHANGED <<options, metrics, levels, manager, bloomEnabled, now, store, tagStore, locks, bitArray,
                   elementCount, bg, faults>>

----------------------------------------------------------------------------
(* set, touch, del *)

\* set(key, value, options) of the manager: storage.set begins with getTags
Set(p) ==
    /\ manager \in SingleTier
    /\ pc[p] = "idle"
    /\ Starts(p)
    /\ \E k \in Keys, v \in {SetValue(p), Undefined},
          tg \in TagOptions, perm \in BOOLEAN, fail \in BOOLEAN :
        LET c0 == [NoCall EXCEPT !.op = "set", !.key = k, !.value = v,
                                 !.opts = [DefaultOptions EXCEPT !.tags = tg,
                                                                 !.permanent = perm]]
        IN
        /\ MayFail(fail)
        /\ faults' = Faults(fail)
        /\ IF fail
           THEN /\ pc' = [pc EXCEPT ![p] = "done"]
                /\ ctx' = [ctx EXCEPT ![p] =
                             Finish([c0 EXCEPT !.failed = TRUE], "storageError", 0)]
           ELSE /\ pc' = [pc EXCEPT ![p] = "setWrite"]
                /\ ctx' = [ctx EXCEPT ![p] = [c0 EXCEPT !.tags = getTags(tg, now)]]
    /\ UNCHANGED <<options, metrics, levels, manager, bloomEnabled, now, store, tagStore, locks, bitArray,
                   elementCount, bg, hist>>

\* the touch reaches the Record of key k: one of its tags is touched
Touches(k, names) ==
    store[k] # NoRecord /\ names \cap DOMAIN store[k].tags # {}

\* and it does so at a clock reading above the version the Record captured
TouchesLater(k, names) ==
    /\ store[k] # NoRecord
    /\ \E n \in names \cap DOMAIN store[k].tags : now > store[k].tags[n]

\* the executor of a get's write-back or of a background refresh has been
\* started and the tag versions for its Record are not fetched yet
InFlight(at, c, names) ==
    /\ hist[c.key].watch
    /\ at \in {"execLocked", "exec", "setTags"}
    /\ names \cap c.opts.tags # {}

\* touch(tagNames): every named tag gets version now (a touch that fails
\* changes nothing)
Touch ==
    /\ manager \in SingleTier
    /\ \E names \in (SUBSET Tags) \ {{}} :
        /\ tagStore' = [n \in Tags |-> IF n \in names THEN now ELSE tagStore[n]]
        /\ hist' = [k \in Keys |->
                      [hist[k] EXCEPT
                         !.touched = @ \/ Touches(k, names),
                         !.later = @ \/ TouchesLater(k, names),
                         !.fill = NoFill]]
        /\ ctx' = [p \in Procs |->
                     IF InFlight(pc[p], ctx[p], names)
                     THEN [ctx[p] EXCEPT !.overtaken = TRUE] ELSE ctx[p]]
        /\ bg' = [p \in Procs |->
                    IF InFlight(bg[p].pc, bg[p], names)
                    THEN [bg[p] EXCEPT !.overtaken = TRUE] ELSE bg[p]]
    /\ UNCHANGED <<options, metrics, levels, manager, bloomEnabled, now, store, locks, bitArray,
                   elementCount, pc, faults>>

\* the clock advances
Tick ==
    /\ now < MaxTime
    /\ now' = now + 1
    /\ UNCHANGED <<options, metrics, levels, manager, bloomEnabled, store, tagStore, locks, bitArray,
                   elementCount, pc, ctx, bg, faults, hist>>

----------------------------------------------------------------------------
(* RefreshAheadManager.refresh: the background refresh *)

RefreshValue(p) == 200 + p

\* lockKey(refreshAhead:<key>)
RefreshLock(p) ==
    /\ bg[p].pc = "lockKey"
    /\ \E fail \in BOOLEAN :
        LET r == bg[p]
            l == RefreshAheadKey(r.key)
            isExecutorLockSuccessful == ~fail /\ ~IsLocked(l)
        IN
        /\ MayFail(fail)
        /\ faults' = Faults(fail)
        /\ IF isExecutorLockSuccessful
           THEN /\ locks' = Acquire(l, p)
                /\ bg' = [bg EXCEPT ![p].pc = "exec", ![p].locked = TRUE,
                                     ![p].at = now]
                /\ hist' = [hist EXCEPT ![r.key].refreshes = @ + 1]
           ELSE /\ bg' = [bg EXCEPT ![p].pc = "idle"]
                /\ UNCHANGED <<locks, hist>>
    /\ UNCHANGED <<options, metrics, levels, manager, bloomEnabled, now, store, tagStore, bitArray,
                   elementCount, pc, ctx>>

\* a variant of refresh that goes on to write after a failed executor
RefreshAfterExecutorWrite(ok) == "setWrite"

\* a variant of refresh that stores whatever its executor left
RefreshAfterExecutorStore(ok) == "setTags"

\* a variant of refresh that ends at once when its executor has failed
RefreshAfterExecutorNoRelease(ok) == IF ok THEN "setTags" ELSE "idle"

\* where the refresh goes once its executor is over: an error is caught and
\* logged, and the finally block releases the lock
RefreshAfterExecutor(ok) == IF ok THEN "setTags" ELSE "releaseKey"

RefreshExecFinish(p) ==
    /\ bg[p].pc = "exec"
    /\ \E ok \in BOOLEAN :
        bg' = [bg EXCEPT ![p].pc = RefreshAfterExecutor(ok),
                         ![p].execError = ~ok,
                         ![p].value = IF ok THEN RefreshValue(p) ELSE 0]
    /\ UNCHANGED <<options, metrics, levels, manager, bloomEnabled, now, store, tagStore, locks, bitArray,
                   elementCount, pc, ctx, faults, hist>>

\* storage.set(key, executorResult, options), first half
RefreshSetTags(p) ==
    /\ bg[p].pc = "setTags"
    /\ \E fail \in BOOLEAN :
        /\ MayFail(fail)
        /\ faults' = Faults(fail)
        /\ bg' = IF fail THEN [bg EXCEPT ![p].pc = "releaseKey"]
                 ELSE [bg EXCEPT ![p].pc = "setWrite",
                                 ![p].tags = getTags(bg[p].opts.tags, now)]
    /\ UNCHANGED <<options, metrics, levels, manager, bloomEnabled, now, store, tagStore, locks, bitArray,
                   elementCount, pc, ctx, hist>>

\* storage.set(key, executorResult, options), second half
RefreshSetWrite(p) ==
    /\ bg[p].pc = "setWrite"
    /\ \E fail \in BOOLEAN :
        LET r == bg[p] IN
        /\ MayFail(fail)
        /\ faults' = Faults(fail)
        /\ bg' = [bg EXCEPT ![p].pc = "releaseKey", ![p].wrote = ~fail]
        /\ IF fail
           THEN UNCHANGED <<store, hist>>
           ELSE /\ store' = [store EXCEPT ![r.key] = NewRecord(r.value, r.tags, r.opts, now)]
                /\ hist' = CountOvertaken(r.key, r.overtaken)
    /\ UNCHANGED <<options, metrics, levels, manager, bloomEnabled, now, tagStore, locks, bitArray,
                   elementCount, pc, ctx>>

\* finally: releaseKey(refreshAhead:<key>)
RefreshRelease(p) ==
    /\ bg[p].pc = "releaseKey"
    /\ \E fail \in BOOLEAN :
        /\ MayFail(fail)
        /\ faults' = Faults(fail)
        /\ locks' = IF fail THEN locks ELSE Release(RefreshAheadKey(bg[p].key))
        /\ bg' = [bg EXCEPT ![p].pc = "idle", ![p].released = TRUE,
                             ![p].relFailed = fail,
                             ![p].tags = EmptyTags, ![p].opts = DefaultOptions]
    /\ UNCHANGED <<options, metrics, levels, manager, bloomEnabled, now, store, tagStore, bitArray,
                   elementCount, pc, ctx, hist>>

----------------------------------------------------------------------------
(* MultiLevelManager over in-memory adapters *)

\* JSON.stringify(value)
JSONstringify(v) == IF v = Undefined THEN NoPayload ELSE <<v>>

\* the first enabled level at or after level i, PastLevels when there is none:
\* the loop over this.levels skips the disabled ones
NextEnabled(i) ==
    IF \E j \in DOMAIN levels : j >= i /\ levels[j].enabled
    THEN CHOOSE j \in DOMAIN levels :
            /\ j >= i /\ levels[j].enabled
            /\ \A m \in DOMAIN levels : (m >= i /\ levels[m].enabled) => j <= m
    ELSE PastLevels

\* the levels the loop passes over as disabled on its way from level i to j
SkippedFrom(i, j) == {m \in DOMAIN levels : i <= m /\ m < j}

\* the expiresIn of set that gives way to options.permanent
LevelExpiresInPermanent(ttl, opts) ==
    IF opts.permanent THEN 0
    ELSE IF ttl # NoTtl THEN ttl
    ELSE IF opts.expiresIn # NoExpiresIn THEN opts.expiresIn
    ELSE 0

\* level.ttl ?? options?.expiresIn ?? 0
LevelExpiresIn(ttl, opts) ==
    IF ttl # NoTtl THEN ttl
    ELSE IF opts.expiresIn # NoExpiresIn THEN opts.expiresIn
    ELSE 0

\* InMemoryStorageAdapter.set: the item and its expiresAt
NewItem(payload, expiresIn, t) ==
    [kind |-> "item", value |-> payload,
     expiresAt |-> IF expiresIn \notin {0, NoExpiresIn} THEN t + expiresIn
                   ELSE NoExpiresAt]

\* the item taken for expired at the instant of its expiresAt already
ItemExpiredAtExpiry(item, t) ==
    item # NoItem /\ item.expiresAt # NoExpiresAt /\ t >= item.expiresAt

\* InMemoryStorageAdapter.get finds the item expired
ItemExpired(item, t) ==
    item # NoItem /\ item.expiresAt # NoExpiresAt /\ t > item.expiresAt

\* one more hit, miss, set or del for the level of that name
CountHit(name) == [metrics EXCEPT ![name].hits = @ + 1]
\* a miss counted under hits
CountMissAsHit(name) == [metrics EXCEPT ![name].hits = @ + 1]
CountMiss(name) == [metrics EXCEPT ![name].misses = @ + 1]
CountSet(name) == [metrics EXCEPT ![name].sets = @ + 1]
CountDel(name) == [metrics EXCEPT ![name].dels = @ + 1]

\* populateHigherLevels: this.levels.findIndex(level => level.enabled),
\* counted from 0, and -1 when no level is enabled
foundLevelIndex ==
    IF NextEnabled(1) = PastLevels THEN -1 ELSE NextEnabled(1) - 1

\* populateHigherLevels: the levels it writes, the enabled ones before
\* foundLevelIndex
WarmTargets ==
    IF foundLevelIndex <= 0 THEN {}
    ELSE {i \in DOMAIN levels : i - 1 < foundLevelIndex /\ levels[i].enabled}

\* populateHigherLevels: level.ttl when truthy, else options.expiresIn
WarmExpiresIn(ttl, opts) ==
    IF ttl # NoTtl /\ ttl # 0 THEN ttl ELSE opts.expiresIn

\* populateHigherLevels: the levels once the value is written to its targets
Warmed(k, v, opts) ==
    [i \in DOMAIN levels |->
        IF i \in WarmTargets
        THEN [levels[i] EXCEPT !.items[k] =
                NewItem(JSONstringify(v), WarmExpiresIn(levels[i].ttl, opts), now)]
        ELSE levels[i]]

\* the call is over: its outcome and result, the bookkeeping kept
MLFinish(c, outcome, result) ==
    [c EXCEPT !.outcome = outcome, !.result = result, !.level = 0, !.value = 0,
              !.tags = EmptyTags]

\* where get goes once every level has missed: the switch on fallbackStrategy
MLAfterMiss(strategy) == IF strategy = "fail" THEN "done" ELSE "mlExec"

\* the executor fallback that throws its result away
MLAfterExecutorNoSet(ok) == "done"

\* where the multi-level get goes once its executor is over
MLAfterExecutor(ok) == IF ok THEN "mlSet" ELSE "done"

\* a storage error that leaves get
MLAfterReadThrow(fail, serializedValue) ==
    IF fail THEN "throw" ELSE IF serializedValue # NoPayload THEN "hit" ELSE "miss"

\* the try/catch around level.storage.get: a truthy value is a hit, no value
\* is a miss, and an error is caught and goes on as a miss
MLAfterRead(fail, serializedValue) ==
    IF ~fail /\ serializedValue # NoPayload THEN "hit" ELSE "miss"

\* del that reports the answer of the last level only
DelSuccessLast(success, result) == result

\* del: success once some level's del has answered true
DelSuccess(success, result) == success \/ result

\* what a client hands to set: a value with a permanent option and an
\* expiresIn that differs from every level's ttl, or no value and no expiresIn
MLSetInputs(p) ==
    {[value |-> SetValue(p),
      opts |-> [expiresIn |-> ExpiresIn + 1, permanent |-> TRUE, tags |-> {}]],
     [value |-> Undefined,
      opts |-> [expiresIn |-> NoExpiresIn, permanent |-> FALSE, tags |-> {}]]}

\* get(key, executor, options): the Bloom pre-check
MLGet(p) ==
    /\ manager = "multi-level"
    /\ pc[p] = "idle"
    /\ Starts(p)
    /\ \E k \in Keys :
        LET c0 == [NoCall EXCEPT !.op = "get", !.key = k,
                                 !.afterFailure = FailedBefore(k),
                                 !.quiet = \A q \in Procs \ {p} :
                                              pc[q] \in {"idle", "done"}]
        IN
        IF BloomNegative(k)
        THEN /\ pc' = [pc EXCEPT ![p] = "execDirect"]
             /\ ctx' = [ctx EXCEPT ![p] = [c0 EXCEPT !.bloomNeg = TRUE, !.execs = 1]]
             /\ hist' = CountExec(k)
        ELSE /\ pc' = [pc EXCEPT ![p] = "mlRead"]
             /\ ctx' = [ctx EXCEPT ![p] = [c0 EXCEPT !.level = 1]]
             /\ hist' = hist
    /\ UNCHANGED <<options, metrics, levels, manager, bloomEnabled, now, store,
                   tagStore, locks, bitArray, elementCount, bg, faults>>

\* the loop of get: level.storage.get(key) on the next enabled level; a value
\* is a hit, which is returned after populateHigherLevels; no value or an
\* error is a miss and goes on to the next level; past the last level the
\* fallback strategy applies
MLRead(p) ==
    /\ pc[p] = "mlRead"
    /\ \E fail \in BOOLEAN :
        LET c == ctx[p]
            i == NextEnabled(c.level)
        IN
        /\ MayFail(fail)
        /\ IF i = PastLevels
           THEN LET next == MLAfterMiss(options.fallbackStrategy)
                    c1 == [c EXCEPT !.skipped = @ \cup SkippedFrom(c.level, i)]
                IN
                /\ ~fail
                /\ pc' = [pc EXCEPT ![p] = next]
                /\ ctx' = [ctx EXCEPT ![p] =
                             IF next = "done" THEN MLFinish(c1, "cacheMiss", 0)
                             ELSE [c1 EXCEPT !.execs = @ + 1]]
                /\ hist' = IF next = "done" THEN hist ELSE CountExec(c.key)
                /\ UNCHANGED <<levels, metrics, bitArray, elementCount, faults>>
           ELSE LET item == levels[i].items[c.key]
                    expired == ItemExpired(item, now)
                    serializedValue == IF item = NoItem \/ expired THEN NoPayload
                                       ELSE item.value
                    after == MLAfterRead(fail, serializedValue)
                    c1 == [c EXCEPT
                             !.skipped = @ \cup SkippedFrom(c.level, i),
                             !.seenEnabled = @ \cup {i},
                             !.reads = Append(@, [level |-> i,
                                                  priority |-> levels[i].priority,
                                                  value |-> serializedValue,
                                                  threw |-> fail])]
                IN
                /\ faults' = Faults(fail)
                /\ hist' = hist
                /\ CASE after = "hit" ->
                          /\ pc' = [pc EXCEPT ![p] = "done"]
                          /\ ctx' = [ctx EXCEPT ![p] =
                                       MLFinish([c1 EXCEPT !.hit = i,
                                                           !.warmed = WarmTargets],
                                                "hit", deserialize(serializedValue))]
                          /\ metrics' = CountHit(levels[i].name)
                          /\ bitArray' = BloomBits(c.key)
                          /\ elementCount' = BloomCount
                          /\ levels' = Warmed(c.key, deserialize(serializedValue), c.opts)
                     [] after = "miss" ->
                          /\ pc' = pc
                          /\ ctx' = [ctx EXCEPT ![p] =
                                       [c1 EXCEPT !.level = i + 1, !.failed = @ \/ fail]]
                          /\ metrics' = CountMiss(levels[i].name)
                          /\ levels' = IF ~fail /\ expired
                                       THEN [levels EXCEPT ![i].items[c.key] = NoItem]
                                       ELSE levels
                          /\ UNCHANGED <<bitArray, elementCount>>
                     [] after = "throw" ->
                          /\ pc' = [pc EXCEPT ![p] = "done"]
                          /\ ctx' = [ctx EXCEPT ![p] =
                                       MLFinish([c1 EXCEPT !.failed = TRUE],
                                                "storageError", 0)]
                          /\ UNCHANGED <<metrics, levels, bitArray, elementCount>>
    /\ UNCHANGED <<options, manager, bloomEnabled, now, store, tagStore, locks, bg>>

\* handleExecutorFallback: the executor returns and this.set follows, or it
\* throws and the error leaves get
MLExecFinish(p) ==
    /\ pc[p] = "mlExec"
    /\ \E ok \in BOOLEAN :
        LET c == ctx[p]
            next == MLAfterExecutor(ok)
        IN
        /\ pc' = [pc EXCEPT ![p] = next]
        /\ ctx' = [ctx EXCEPT ![p] =
                     IF next = "done"
                     THEN MLFinish([c EXCEPT !.execError = ~ok], "executorError", 0)
                     ELSE [c EXCEPT !.execError = ~ok,
                                    !.value = IF ok THEN ExecValue(p) ELSE 0,
                                    !.tags = getTags(c.opts.tags, now),
                                    !.level = 1]]
    /\ UNCHANGED <<options, metrics, levels, manager, bloomEnabled, now, store,
                   tagStore, locks, bitArray, elementCount, bg, faults, hist>>

\* set(key, value, options), called by a client
MLSet(p) ==
    /\ manager = "multi-level"
    /\ pc[p] = "idle"
    /\ Starts(p)
    /\ \E k \in Keys, in \in MLSetInputs(p) :
        /\ pc' = [pc EXCEPT ![p] = "mlSet"]
        /\ ctx' = [ctx EXCEPT ![p] =
                     [NoCall EXCEPT !.op = "set", !.key = k, !.value = in.value,
                                    !.opts = in.opts,
                                    !.tags = getTags(in.opts.tags, now),
                                    !.level = 1]]
    /\ UNCHANGED <<options, metrics, levels, manager, bloomEnabled, now, store,
                   tagStore, locks, bitArray, elementCount, bg, faults, hist>>

\* the loop of set: level.storage.set(key, serializedValue, expiresIn) on the
\* next enabled level, an error being logged; past the last level the key is
\* added to the Bloom filter and set returns its Record
MLSetLevel(p) ==
    /\ pc[p] = "mlSet"
    /\ \E fail \in BOOLEAN :
        LET c == ctx[p]
            i == NextEnabled(c.level)
        IN
        /\ MayFail(fail)
        /\ IF i = PastLevels
           THEN LET c1 == [c EXCEPT !.setSkipped = @ \cup SkippedFrom(c.level, i),
                                    !.ret = NewRecord(c.value, c.tags,
                                              [c.opts EXCEPT !.expiresIn = c.usedExpiresIn],
                                              now)]
                IN
                /\ ~fail
                /\ pc' = [pc EXCEPT ![p] = "done"]
                /\ ctx' = [ctx EXCEPT ![p] =
                             MLFinish(c1, IF c.op = "get" THEN "executor" ELSE "set",
                                      c.value)]
                /\ bitArray' = BloomBits(c.key)
                /\ elementCount' = BloomCount
                /\ UNCHANGED <<levels, metrics, faults, hist>>
           ELSE LET expiresIn == LevelExpiresIn(levels[i].ttl, c.opts) IN
                /\ faults' = Faults(fail)
                /\ pc' = pc
                /\ ctx' = [ctx EXCEPT ![p] =
                             [c EXCEPT !.level = i + 1, !.failed = @ \/ fail,
                                       !.wrote = @ \/ ~fail,
                                       !.usedExpiresIn = IF @ = 0 THEN expiresIn ELSE @,
                                       !.setSkipped = @ \cup SkippedFrom(c.level, i),
                                       !.sets = Append(@, [level |-> i,
                                                           ttl |-> levels[i].ttl,
                                                           expiresIn |-> expiresIn,
                                                           payload |-> JSONstringify(c.value),
                                                           threw |-> fail])]]
                /\ levels' = IF fail THEN levels
                             ELSE [levels EXCEPT ![i].items[c.key] =
                                     NewItem(JSONstringify(c.value), expiresIn, now)]
                /\ metrics' = IF fail THEN metrics ELSE CountSet(levels[i].name)
                /\ hist' = IF fail THEN hist ELSE [hist EXCEPT ![c.key].writes = @ + 1]
                /\ UNCHANGED <<bitArray, elementCount>>
    /\ UNCHANGED <<options, manager, bloomEnabled, now, store, tagStore, locks, bg>>

\* del(key), called by a client
MLDel(p) ==
    /\ manager = "multi-level"
    /\ pc[p] = "idle"
    /\ Starts(p)
    /\ \E k \in Keys :
        /\ pc' = [pc EXCEPT ![p] = "mlDel"]
        /\ ctx' = [ctx EXCEPT ![p] = [NoCall EXCEPT !.op = "del", !.key = k,
                                                    !.level = 1]]
    /\ UNCHANGED <<options, metrics, levels, manager, bloomEnabled, now, store,
                   tagStore, locks, bitArray, elementCount, bg, faults, hist>>

\* the loop of del: level.storage.del(key) on the next enabled level, which
\* answers whether it held the key, an error being logged; past the last
\* level del returns success
MLDelLevel(p) ==
    /\ pc[p] = "mlDel"
    /\ \E fail \in BOOLEAN :
        LET c == ctx[p]
            i == NextEnabled(c.level)
        IN
        /\ MayFail(fail)
        /\ IF i = PastLevels
           THEN /\ ~fail
                /\ pc' = [pc EXCEPT ![p] = "done"]
                /\ ctx' = [ctx EXCEPT ![p] =
                             MLFinish([c EXCEPT !.skipped = @ \cup SkippedFrom(c.level, i)],
                                      "del", 0)]
                /\ UNCHANGED <<levels, metrics, faults>>
           ELSE LET result == ~fail /\ levels[i].items[c.key] # NoItem IN
                /\ faults' = Faults(fail)
                /\ pc' = pc
                /\ ctx' = [ctx EXCEPT ![p] =
                             [c EXCEPT !.level = i + 1, !.failed = @ \/ fail,
                                       !.success = IF fail THEN @
                                                   ELSE DelSuccess(@, result),
                                       !.skipped = @ \cup SkippedFrom(c.level, i),
                                       !.seenEnabled = @ \cup {i},
                                       !.dels = Append(@, [level |-> i,
                                                           result |-> result,
                                                           threw |-> fail])]]
                /\ levels' = IF fail THEN levels
                             ELSE [levels EXCEPT ![i].items[c.key] = NoItem]
                /\ metrics' = IF result THEN CountDel(levels[i].name) ELSE metrics
    /\ UNCHANGED <<options, manager, bloomEnabled, now, store, tagStore, locks,
                   bitArray, elementCount, bg, hist>>

\* this.levels.find(l => l.name === levelName): the index of the first level
\* of that name, 0 when no level has it
FindLevel(ls, levelName) ==
    LET named == {i \in DOMAIN ls : ls[i].name = levelName}
    IN  IF named = {} THEN 0 ELSE CHOOSE i \in named : \A j \in named : i <= j

\* an enableLevel that would switch every level on
enableEveryLevel(ls, levelName) ==
    [i \in DOMAIN ls |-> [ls[i] EXCEPT !.enabled = TRUE]]

\* enableLevel(levelName): the levels after the call
enableLevel(ls, levelName) ==
    LET i == FindLevel(ls, levelName)
    IN  IF i = 0 THEN ls ELSE [ls EXCEPT ![i].enabled = TRUE]

\* disableLevel(levelName): the levels after the call
disableLevel(ls, levelName) ==
    LET i == FindLevel(ls, levelName)
    IN  IF i = 0 THEN ls ELSE [ls EXCEPT ![i].enabled = FALSE]

\* getLevelStats()
getLevelStats(ls) ==
    [i \in DOMAIN ls |-> [name |-> ls[i].name, enabled |-> ls[i].enabled,
                          priority |-> ls[i].priority]]

\* the names a caller passes: those of the levels and one no level has
UnknownLevel == "L3"
LevelNames == {LevelName(i) : i \in Levels} \cup {UnknownLevel}

\* enableLevel(levelName) on a level that is off
EnableLevel(i) ==
    /\ manager = "multi-level"
    /\ i \in DOMAIN levels
    /\ ~levels[i].enabled
    /\ levels' = enableLevel(levels, levels[i].name)
    /\ UNCHANGED <<options, metrics, manager, bloomEnabled, now, store, tagStore,
                   locks, bitArray, elementCount, pc, ctx, bg, faults, hist>>

\* disableLevel(levelName) on a level that is on
DisableLevel(i) ==
    /\ manager = "multi-level"
    /\ i \in DOMAIN levels
    /\ levels[i].enabled
    /\ levels' = disableLevel(levels, levels[i].name)
    /\ UNCHANGED <<options, metrics, manager, bloomEnabled, now, store, tagStore,
                   locks, bitArray, elementCount, pc, ctx, bg, faults, hist>>

----------------------------------------------------------------------------
(* The specification *)

Step(p) ==
    \/ Get(p)
    \/ IsOutdatedStep(p)
    \/ LockKeyStep(p)
    \/ ExecLockedFinish(p)
    \/ SetTags(p)
    \/ SetWrite(p)
    \/ ReleaseKey(p)
    \/ WaitPoll(p)
    \/ ExecDirectFinish(p)
    \/ Set(p)

Refresh(p) ==
    \/ RefreshLock(p)
    \/ RefreshExecFinish(p)
    \/ RefreshSetTags(p)
    \/ RefreshSetWrite(p)
    \/ RefreshRelease(p)

MLStep(p) ==
    \/ MLGet(p)
    \/ MLRead(p)
    \/ MLExecFinish(p)
    \/ MLSet(p)
    \/ MLSetLevel(p)
    \/ MLDel(p)
    \/ MLDelLevel(p)

\* the steps of the single-tier managers
SingleTierNext ==
    \/ \E p \in Procs : Step(p)
    \/ \E p \in Procs : Refresh(p)
    \/ Touch
    \/ Tick

\* the steps of the multi-level manager
MultiLevelNext ==
    \/ \E p \in Procs : MLStep(p)
    \/ \E i \in Levels : EnableLevel(i)
    \/ \E i \in Levels : DisableLevel(i)

Next == SingleTierNext \/ MultiLevelNext

Spec == Init /\ [][Next]_vars

\* the single-tier managers alone
SingleTierInit == Init /\ manager \in SingleTier

SingleTierSpec == SingleTierInit /\ [][SingleTierNext]_vars

\* the Read-Through manager alone
ReadThroughInit == Init /\ manager = "read-through"

ReadThroughNext ==
    \/ \E p \in Procs : Step(p)
    \/ Touch
    \/ Tick

ReadThroughSpec == ReadThroughInit /\ [][ReadThroughNext]_vars

\* the Write-Through manager alone, over a storage that may already hold a
\* Record; its get never asks the storage whether the Record is outdated
WriteThroughInit == SharedStoreInit /\ manager = "write-through"

WriteThroughStep(p) ==
    \/ Get(p)
    \/ LockKeyStep(p)
    \/ ExecLockedFinish(p)
    \/ SetTags(p)
    \/ SetWrite(p)
    \/ ReleaseKey(p)
    \/ WaitPoll(p)
    \/ ExecDirectFinish(p)
    \/ Set(p)

WriteThroughNext ==
    \/ \E p \in Procs : WriteThroughStep(p)
    \/ Touch
    \/ Tick

WriteThroughSpec == WriteThroughInit /\ [][WriteThroughNext]_vars

\* The multi-level manager alone, for the ways of building it: the levels
\* passed in either order or not at all, the second level's storage empty or
\* already holding the key, with and without the Bloom filter, and each
\* fallback strategy for levels passed in priority order
PassedLevels ==
    LET stored == [EmptyStorage EXCEPT ![KeyA] =
                     NewItem(JSONstringify(StoredValue), 0, 0)]
    IN  {<<>>}
        \cup {<<NewLevel(1), CacheLevel(2, items)>> : items \in {EmptyStorage, stored}}
        \cup {<<CacheLevel(2, items), NewLevel(1)>> : items \in {EmptyStorage, stored}}

MultiLevelInit ==
    /\ manager = "multi-level"
    /\ bloomEnabled \in BOOLEAN
    /\ \E passed \in PassedLevels, strategy \in FallbackStrategies :
        /\ NamesOf(passed) # NewOptions.levels => strategy = NewOptions.fallbackStrategy
        /\ options = [NewOptions EXCEPT !.levels = NamesOf(passed),
                                        !.fallbackStrategy = strategy]
        /\ levels = SortByPriority(passed)
        /\ metrics = NewMetrics(passed)
    /\ now = 0
    /\ store = [k \in Keys |-> NoRecord]
    /\ tagStore = [n \in Tags |-> NoTag]
    /\ locks = [l \in LockKeys |-> NoLock]
    /\ bitArray = {}
    /\ elementCount = 0
    /\ pc = [p \in Procs |-> "idle"]
    /\ ctx = [p \in Procs |-> NoCall]
    /\ bg = [p \in Procs |-> NoRefresh]
    /\ faults = 0
    /\ hist = [k \in Keys |-> NoHist]

\* its steps: those of its own code and the end of the executor its Bloom
\* pre-check runs directly
MultiLevelAloneNext ==
    \/ MultiLevelNext
    \/ \E p \in Procs : ExecDirectFinish(p)

MultiLevelSpec == MultiLevelInit /\ [][MultiLevelAloneNext]_vars

\* the multi-level manager built the default way (levels in priority order,
\* executor fallback, no Bloom filter), for the switching of its levels
LevelSwitchInit ==
    /\ MultiLevelInit
    /\ bloomEnabled = FALSE
    /\ options.levels = NewOptions.levels
    /\ options.fallbackStrategy = NewOptions.fallbackStrategy

LevelSwitchSpec == LevelSwitchInit /\ [][MultiLevelNext]_vars

\* the managers whose own code runs an executor and stores its result: the
\* background refresh of Refresh-Ahead and the executor fallback of the
\* multi-level manager, each with the steps of its own
FallbackInit == Init /\ manager \in {"refresh-ahead", "multi-level"}

FallbackNext ==
    \/ manager = "refresh-ahead" /\ SingleTierNext
    \/ manager = "multi-level" /\ MultiLevelAloneNext

FallbackSpec == FallbackInit /\ [][FallbackNext]_vars

\* The Refresh-Ahead manager alone, built with each factor a caller may pass
\* and without Bloom filter, over a storage that may already hold a Record;
\* where the constructor throws there is no manager and nothing runs
RefreshAheadInit ==
    /\ bloomEnabled = FALSE
    /\ \E f \in PassedFactors :
        /\ options = [NewOptions EXCEPT !.refreshAheadFactor = f]
        /\ manager = IF FactorRejected(f) THEN NoManager ELSE "refresh-ahead"
    /\ levels = NewLevels
    /\ metrics = NewMetrics(levels)
    /\ now = 0
    /\ store \in [Keys -> {NoRecord, StoredRecord, StoredPermanent}]
    /\ tagStore = [n \in Tags |-> NoTag]
    /\ locks = [l \in LockKeys |-> NoLock]
    /\ bitArray = {}
    /\ elementCount = 0
    /\ pc = [p \in Procs |-> "idle"]
    /\ ctx = [p \in Procs |-> NoCall]
    /\ bg = [p \in Procs |-> NoRefresh]
    /\ faults = 0
    /\ hist = [k \in Keys |-> NoHist]

\* its gets, the recompute they enter, the background refreshes they fire
\* and the clock
RefreshAheadStep(p) ==
    \/ Get(p)
    \/ IsOutdatedStep(p)
    \/ LockKeyStep(p)
    \/ ExecLockedFinish(p)
    \/ SetTags(p)
    \/ SetWrite(p)
    \/ ReleaseKey(p)
    \/ WaitPoll(p)
    \/ ExecDirectFinish(p)

RefreshAheadNext ==
    \/ \E p \in Procs : RefreshAheadStep(p)
    \/ \E p \in Procs : Refresh(p)
    \/ Tick

RefreshAheadSpec == RefreshAheadInit /\ [][RefreshAheadNext]_vars

\* The wait of waitForResult is the same code under every manager; its
\* termination is checked on the refresh-ahead manager, whose get has the
\* steps of the read-through one and the background refresh besides, with
\* the Bloom filter disabled so that concurrent gets reach lockKey.
WaitInit == Init /\ manager = "refresh-ahead" /\ ~bloomEnabled

\* the event loop runs the timers and continuations of a waiting caller, and
\* the caller's own executor returns or throws; nothing is assumed about the
\* lock holder, which may stall for ever
WaitSpec ==
    /\ WaitInit /\ [][SingleTierNext]_vars
    /\ \A p \in Procs : WF_vars(WaitPoll(p)) /\ WF_vars(ExecDirectFinish(p))

TypeOK ==
    /\ manager \in Managers \cup {NoManager}
    /\ now \in 0..MaxTime
    /\ faults \in 0..MaxFaults

----------------------------------------------------------------------------
(* Properties *)

Done(p) == pc[p] = "done"
DoneGet(p) == Done(p) /\ ctx[p].op = "get"

\* the clients whose executor is in progress for key k
ExecutorsRunning(k) ==
    {p \in Procs : pc[p] \in {"execLocked", "execDirect"} /\ ctx[p].key = k}

\* C1: under a single-tier manager, for every key, at most one executor
\* invocation of a get is in progress at any instant, on every path of get.
C1_AtMostOneExecutor ==
    manager \in SingleTier =>
        \A k \in Keys : Cardinality(ExecutorsRunning(k)) <= 1

\* the gets of the clients ran concurrently under waitForResult
AllWaitForResult ==
    \A p \in Procs : DoneGet(p) /\ ctx[p].strategy = "waitForResult"

\* C2 as stated: when the gets for a key with no stored Record run
\* concurrently under waitForResult, no Storage call fails, no tag is touched
\* and no executor fails, one executor invocation is made
\* in total, every caller receives its value and the Record is written once.
C2_ExactlyOneExecutor ==
    \A h \in Procs :
        (/\ AllWaitForResult
         /\ hist[ctx[h].key].overlap
         /\ \A p \in Procs : ~ctx[p].failed /\ ~ctx[p].execError
         /\ \A n \in Tags : tagStore[n] = NoTag
         /\ ctx[h].locked)
            => /\ hist[ctx[h].key].execs = 1
               /\ hist[ctx[h].key].writes = 1
               /\ \A p \in Procs : ctx[p].result = ExecValue(h)

\* C2 amended: under waitForResult a caller that does not get the lock and
\* whose bounded wait is not exhausted runs no executor, writes nothing and
\* returns the Record it found; when one caller gets the lock, its executor
\* succeeds and every other caller returns from its wait, one executor
\* invocation is made in total, every caller receives its value and the
\* Record is written once.
C2_OneExecutorWhenOthersWait ==
    AllWaitForResult =>
        /\ \A p \in Procs :
             (ctx[p].lockMissed /\ ~ctx[p].exhausted)
                => ctx[p].outcome = "waited" /\ ctx[p].execs = 0 /\ ~ctx[p].wrote
        /\ \A h \in Procs :
             (/\ ctx[h].locked /\ ~ctx[h].execError
              /\ \A p \in Procs \ {h} : ctx[p].outcome = "waited")
                => /\ hist[ctx[h].key].execs = 1
                   /\ hist[ctx[h].key].writes = 1
                   /\ \A p \in Procs : ctx[p].result = ExecValue(h)

C2_Witness ==
    \E h \in Procs, p \in Procs :
        /\ AllWaitForResult
        /\ ctx[h].locked /\ ctx[h].wrote /\ ctx[h].result = ExecValue(h)
        /\ ctx[p].lockMissed /\ ctx[p].outcome = "waited"
        /\ ctx[p].result = ExecValue(h)
        /\ hist[ctx[h].key].execs = 1 /\ hist[ctx[h].key].writes = 1

C4_HitIffFresh ==
    \A p \in Procs :
        (manager = "read-through" /\ ~bloomEnabled /\ DoneGet(p)
         /\ ~ctx[p].readFailed /\ ctx[p].sawOutdated # "failed")
            => /\ ctx[p].sawValid => ctx[p].sawOutdated \in {"yes", "no"}
               /\ (ctx[p].outcome = "hit")
                    <=> (ctx[p].sawValid /\ ctx[p].sawOutdated = "no")
               /\ ctx[p].outcome = "hit" => ctx[p].execs = 0
               /\ ctx[p].outcome # "hit" => ctx[p].lockTried

C4_Witness ==
    \E p \in Procs :
        /\ manager = "read-through" /\ ~bloomEnabled /\ DoneGet(p)
        /\ ctx[p].sawBoundary /\ ctx[p].outcome = "hit" /\ ctx[p].execs = 0

\* C5: once a Read-Through get on an empty store has returned v, a second
\* get within the TTL with no touch or other write in between is served v
\* from the cache, with the Bloom filter enabled or disabled.
C5_SecondGetServedFromCache ==
    \A p \in Procs :
        (manager = "read-through" /\ DoneGet(p) /\ ctx[p].sawFill /\ ~ctx[p].failed
         /\ hist[ctx[p].key].fill.on)
            => ctx[p].outcome = "hit" /\ ctx[p].result = ctx[p].fillValue

\* the same with the Bloom filter disabled
C5_WithoutBloom == ~bloomEnabled => C5_SecondGetServedFromCache

\* C6: a get that acquired the key's lock has issued releaseKey by the time
\* it completes, after a successful executor and after a failed one, and
\* unless that releaseKey itself failed it leaves no lock of its own behind.
C6_LockReleased ==
    \A p \in Procs :
        (DoneGet(p) /\ ctx[p].locked)
            => /\ ctx[p].released
               /\ ~ctx[p].relFailed
                    => ~(locks[LockOf(ctx[p].key)].held
                         /\ locks[LockOf(ctx[p].key)].owner = p)

C6_Witness ==
    \E p \in Procs :
        /\ DoneGet(p) /\ ctx[p].locked /\ ctx[p].execError
        /\ ctx[p].released /\ ~ctx[p].relFailed
        /\ ~locks[LockOf(ctx[p].key)].held

\* C7: a get during which a Storage call failed does not fail with the
\* Storage error.
C7_StorageFailureFallsBack ==
    \A p \in Procs :
        (DoneGet(p) /\ ctx[p].failed) => ctx[p].outcome # "storageError"

\* the payloads a successful executor or a set of the model can produce
Produced ==
    {serialize(ExecValue(p)) : p \in Procs} \cup {serialize(RefreshValue(p)) : p \in Procs}
        \cup {serialize(SetValue(p)) : p \in Procs} \cup {serialize(Undefined)}

\* C8: a get whose executor failed has written nothing, in the store or in
\* any level, and once it is over its caller has the executor's error; a
\* background refresh whose executor failed has written nothing either; the
\* store and the levels hold nothing but values produced by a successful
\* executor or passed to set (no failure marker); and a get that starts after
\* such a failure runs its executor or returns a stored value.
C8_ExecutorFailureWritesNothing ==
    /\ \A p \in Procs :
         (ctx[p].op = "get" /\ ctx[p].execError)
            => /\ ~ctx[p].wrote
               /\ Done(p) => ctx[p].outcome = "executorError"
    /\ \A p \in Procs : bg[p].execError => ~bg[p].wrote
    /\ \A k \in Keys : store[k] # NoRecord => store[k].value \in Produced
    /\ \A i \in Levels, k \in Keys :
         levels[i].items[k] # NoItem => levels[i].items[k].value \in Produced
    /\ \A p \in Procs :
         (DoneGet(p) /\ ctx[p].afterFailure)
            => \/ ctx[p].execs >= 1
               \/ ctx[p].outcome = "storageError"
               \/ /\ ctx[p].outcome \in {"hit", "waited"}
                  /\ serialize(ctx[p].result) \in Produced

\* a refresh of the Refresh-Ahead manager failed in its executor, released
\* its lock and left the Record as set had written it
C8_Witness ==
    \E q \in Procs :
        /\ manager = "refresh-ahead"
        /\ DoneGet(q) /\ ctx[q].outcome = "hit"
        /\ bg[q].execError /\ bg[q].released /\ ~bg[q].wrote
        /\ store[bg[q].key] # NoRecord
        /\ store[bg[q].key].value = serialize(SetValue(q))

\* the executor fallback of the multi-level manager failed, no level holds
\* the key, and a later get ran its executor and stored its value
C8_MultiLevelWitness ==
    \E p \in Procs, q \in Procs :
        /\ manager = "multi-level"
        /\ DoneGet(p) /\ ctx[p].execError /\ ctx[p].outcome = "executorError"
        /\ DoneGet(q) /\ ctx[q].afterFailure /\ ctx[q].outcome = "executor"
        /\ \E i \in Levels : levels[i].items[ctx[q].key] # NoItem

\* C9: under runExecutor a get that did not get the lock runs its own
\* executor once, returns that result and writes nothing; when both calls are
\* over the stored Record is the lock holder's.
C9_LoserDoesNotWrite ==
    \A p \in Procs :
        (DoneGet(p) /\ ctx[p].lockMissed /\ ctx[p].strategy = "runExecutor")
            => /\ ctx[p].execs = 1
               /\ ~ctx[p].wrote
               /\ ctx[p].outcome \in {"executor", "executorError"}
               /\ ctx[p].outcome = "executor" => ctx[p].result = ExecValue(p)
               /\ \A q \in Procs \ {p} :
                    (DoneGet(q) /\ ctx[q].wrote /\ ~hist[ctx[p].key].touched
                     /\ bg[q].pc = "idle" /\ ~bg[q].wrote)
                        => store[ctx[p].key].value = serialize(ExecValue(q))

C9_Witness ==
    \E p \in Procs, q \in Procs :
        /\ DoneGet(p) /\ ctx[p].lockMissed /\ ctx[p].strategy = "runExecutor"
        /\ ctx[p].outcome = "executor" /\ ctx[p].result = ExecValue(p)
        /\ DoneGet(q) /\ ctx[q].locked /\ ctx[q].wrote
        /\ store[ctx[p].key].value = serialize(ExecValue(q))

\* C10: every get that did not get the lock under waitForResult eventually
\* completes, with the fresh Record it found or, once its bounded wait is
\* exhausted, with the outcome of its own executor; it never waits for ever.
C10_WaiterCompletes ==
    \A p \in Procs : (pc[p] = "wait") ~> (pc[p] = "done")

C10_Witness ==
    \E p \in Procs :
        /\ DoneGet(p) /\ ctx[p].strategy = "waitForResult"
        /\ ctx[p].lockMissed /\ ctx[p].exhausted
        /\ ctx[p].outcome = "executor" /\ ctx[p].result = ExecValue(p)
        /\ \E h \in Procs : pc[h] = "execLocked"

----------------------------------------------------------------------------
(* Properties of the multi-level manager *)

\* the levels a multi-level call has read, written or deleted from
LevelsOf(entries) == {entries[n].level : n \in DOMAIN entries}

\* the read handed no value over: the level did not hold the key, or threw
IsMiss(read) == read.threw \/ read.value = NoPayload

\* C11: this.levels is in ascending priority order whatever order the levels
\* were passed in, and a get that hits has read levels in ascending priority
\* order, has read none of the levels it passed over as disabled, was handed
\* no value by any level read before the one that hit, returns the value of
\* that level, has read no level behind it and has invoked no executor.
C11_FirstHitInPriorityOrder ==
    /\ \A i \in DOMAIN levels, j \in DOMAIN levels :
          i < j => levels[i].priority <= levels[j].priority
    /\ \A p \in Procs :
          (DoneGet(p) /\ ctx[p].hit # 0)
          => LET c == ctx[p]
                 r == c.reads
                 last == r[Len(r)]
             IN
             /\ c.outcome = "hit"
             /\ \A n \in 1..(Len(r) - 1) :
                   r[n].priority < r[n + 1].priority /\ IsMiss(r[n])
             /\ last.level = c.hit /\ ~IsMiss(last)
             /\ c.result = deserialize(last.value)
             /\ c.skipped \cap LevelsOf(r) = {}
             /\ c.skipped \cup LevelsOf(r) = {j \in DOMAIN levels : j <= c.hit}
             /\ c.execs = 0

\* the levels were passed in descending priority order, both hold the key,
\* and a get was served by the first without reading the second
C11_Witness ==
    \E p \in Procs :
        /\ options.levels = <<"L2", "L1">>
        /\ DoneGet(p) /\ ctx[p].hit = 1 /\ levels[1].name = "L1"
        /\ Len(ctx[p].reads) = 1 /\ ctx[p].execs = 0
        /\ levels[2].enabled /\ levels[2].items[ctx[p].key] # NoItem
        /\ ctx[p].result = SetValue(1)

\* C12: when a get hits at a level, every level of higher priority that its
\* walk found enabled has been handed a storage.set for the key by the time
\* the get returns.
C12_HitWarmsHigherLevels ==
    \A p \in Procs :
        (DoneGet(p) /\ ctx[p].hit # 0)
        => \A j \in ctx[p].seenEnabled : j < ctx[p].hit => j \in ctx[p].warmed

\* client p's get ran from two enabled levels of which the first missed and
\* the second hit
HitAtSecond(p) ==
    /\ DoneGet(p) /\ ctx[p].hit = 2 /\ ctx[p].quiet
    /\ LevelsOf(ctx[p].reads) = {1, 2} /\ ~ctx[p].reads[1].threw

\* C13: with two enabled levels, the first empty and the second holding the
\* key, the first get ends with L1.misses = 1, L2.hits = 1 and the first
\* level holding the key, and a second get issued after it is served from the
\* first level, with L1.hits = 1 and L1.misses and L2.hits still 1.
C13_WarmUpMetrics ==
    /\ \A p \in Procs :
          (HitAtSecond(p) /\ \A q \in Procs \ {p} : pc[q] = "idle")
          => /\ metrics["L1"].misses = 1 /\ metrics["L2"].hits = 1
             /\ levels[1].items[ctx[p].key] # NoItem
    /\ \A p \in Procs, q \in Procs :
          (/\ p < q /\ HitAtSecond(p) /\ DoneGet(q) /\ ctx[q].quiet
           /\ ctx[q].key = ctx[p].key /\ ~ctx[q].failed
           /\ \A i \in DOMAIN levels : levels[i].enabled)
          => /\ ctx[q].hit = 1
             /\ metrics["L1"].hits = 1 /\ metrics["L1"].misses = 1
             /\ metrics["L2"].hits = 1

\* C13 as the code runs it: the second get misses the first level again and
\* is served from the second
C13_SecondGetMissesAgain ==
    \E p \in Procs, q \in Procs :
        /\ p < q /\ HitAtSecond(p) /\ DoneGet(q) /\ ctx[q].quiet
        /\ ctx[q].hit = 2 /\ ~ctx[q].failed
        /\ metrics["L1"].misses = 2 /\ metrics["L2"].hits = 2
        /\ levels[1].items[ctx[q].key] = NoItem

\* the walk of client p's get is over and no level handed a value over
AllMissed(p) ==
    /\ manager = "multi-level"
    /\ ctx[p].op = "get" /\ ~ctx[p].bloomNeg /\ ctx[p].hit = 0
    /\ pc[p] \in {"mlExec", "mlSet", "done"}
    /\ \A n \in DOMAIN ctx[p].reads : IsMiss(ctx[p].reads[n])

\* C14: under the executor and the next-level fallback, a get whose walk
\* found no value invokes the executor once and, when the executor returns,
\* hands a storage.set with the result to every level its set loop finds
\* enabled, passes over the others, and returns the result.
C14_FallbackRunsExecutorAndSets ==
    \A p \in Procs :
        (AllMissed(p) /\ options.fallbackStrategy \in {"executor", "next-level"})
        => LET c == ctx[p] IN
           /\ c.execs = 1
           /\ (Done(p) /\ ~c.execError)
              => /\ c.outcome = "executor" /\ c.result = ExecValue(p)
                 /\ LevelsOf(c.sets) \cup c.setSkipped = DOMAIN levels
                 /\ LevelsOf(c.sets) \cap c.setSkipped = {}
                 /\ \A n \in DOMAIN c.sets :
                       c.sets[n].payload = JSONstringify(ExecValue(p))

\* under next-level a get missed two enabled levels, ran its executor and
\* left its result in both
C14_Witness ==
    \E p \in Procs :
        /\ options.fallbackStrategy = "next-level"
        /\ AllMissed(p) /\ Done(p) /\ ctx[p].outcome = "executor"
        /\ Len(ctx[p].reads) = 2 /\ LevelsOf(ctx[p].sets) = {1, 2}
        /\ \A i \in DOMAIN levels :
              /\ levels[i].items[ctx[p].key] # NoItem
              /\ levels[i].items[ctx[p].key].value = JSONstringify(ExecValue(p))

\* C15: under the fail fallback, a get that no level served ends with the
\* cache-miss error, has invoked no executor and has written to no level,
\* with the Bloom filter enabled or not.
C15_FailNeverRunsExecutor ==
    \A p \in Procs :
        (options.fallbackStrategy = "fail" /\ DoneGet(p) /\ ctx[p].hit = 0)
        => /\ ctx[p].outcome = "cacheMiss"
           /\ ctx[p].execs = 0
           /\ ctx[p].sets = <<>>

\* C15 holds of a manager built without the Bloom filter
C15_WithoutBloom == ~bloomEnabled => C15_FailNeverRunsExecutor

\* the executor invocations of the fallback in progress for the key
FallbackExecutorsRunning(k) ==
    {p \in Procs : pc[p] = "mlExec" /\ ctx[p].key = k}

\* C16: under the multi-level manager, for every key, at most one executor
\* invocation of the fallback of get is in progress at any instant.
C16_AtMostOneFallbackExecutor ==
    \A k \in Keys : Cardinality(FallbackExecutorsRunning(k)) <= 1

C18_DelEveryEnabledLevel ==
    \A p \in Procs :
        (Done(p) /\ ctx[p].op = "del")
        => LET c == ctx[p] IN
           /\ c.outcome = "del"
           /\ LevelsOf(c.dels) \cup c.skipped = DOMAIN levels
           /\ LevelsOf(c.dels) \cap c.skipped = {}
           /\ c.success <=> \E n \in DOMAIN c.dels : c.dels[n].result

\* the del of the first level threw, the second answered true, and del
\* returned true
C18_Witness ==
    \E p \in Procs :
        /\ Done(p) /\ ctx[p].op = "del" /\ ctx[p].success
        /\ Len(ctx[p].dels) = 2
        /\ ctx[p].dels[1].threw /\ ctx[p].dels[2].result

\* the reads of the level that ended as a miss, over all gets
MissesAt(i) ==
    {<<p, n>> \in Procs \X (1..2) :
        /\ n \in DOMAIN ctx[p].reads
        /\ ctx[p].reads[n].level = i /\ IsMiss(ctx[p].reads[n])}

\* C19: every read of a level that threw or found nothing is counted as one
\* miss of that level, and a get one of whose reads threw goes on with the
\* levels behind it: it never ends with the storage error, and once it is
\* over it has read or passed over every level up to the one that hit, or all
\* of them when it ends with the outcome of the fallback.
C19_ReadErrorIsOneMiss ==
    /\ \A i \in DOMAIN levels :
          metrics[levels[i].name].misses = Cardinality(MissesAt(i))
    /\ \A p \in Procs :
          (ctx[p].op = "get" /\ \E n \in DOMAIN ctx[p].reads : ctx[p].reads[n].threw)
          => LET c == ctx[p] IN
             /\ c.outcome # "storageError"
             /\ Done(p)
                => /\ c.outcome \in {"hit", "executor", "executorError", "cacheMiss"}
                   /\ LevelsOf(c.reads) \cup c.skipped =
                         IF c.hit # 0 THEN {j \in DOMAIN levels : j <= c.hit}
                         ELSE DOMAIN levels

\* the read of the first level threw, which is its one miss, and the get
\* returned the value the second level holds
C19_Witness ==
    \E p \in Procs :
        /\ DoneGet(p) /\ ctx[p].outcome = "hit" /\ ctx[p].hit = 2
        /\ ctx[p].reads[1].threw /\ ctx[p].reads[1].level = 1
        /\ metrics["L1"].misses = 1
        /\ ctx[p].result = StoredValue

\* C20: no multi-level manager without levels exists.
C20_NoManagerWithoutLevels ==
    manager = "multi-level" => Len(levels) > 0

\* the levels after a switch differ from those before in nothing but the
\* enabled flag of the level named
OnlyEnabledDiffers(before, after, levelName) ==
    /\ DOMAIN after = DOMAIN before
    /\ \A i \in DOMAIN before :
        /\ [after[i] EXCEPT !.enabled = before[i].enabled] = before[i]
        /\ before[i].name # levelName => after[i] = before[i]

\* the level of that name is on, or no level has the name
OnOrUnknown(ls, levelName) ==
    FindLevel(ls, levelName) = 0 \/ ls[FindLevel(ls, levelName)].enabled

\* C21: disableLevel and enableLevel change nothing but the enabled flag of
\* the level named: the order of the levels, their priority, ttl and stored
\* items and the metrics stay as they were, a name no level has changes
\* nothing at all, and disableLevel followed by enableLevel of a level that
\* was on (or of an unknown name) gives back the getLevelStats() from before.
C21_SwitchChangesOnlyEnabledFlag ==
    [][/\ manager = "multi-level" =>
            \A n \in LevelNames :
                /\ OnlyEnabledDiffers(levels, enableLevel(levels, n), n)
                /\ OnlyEnabledDiffers(levels, disableLevel(levels, n), n)
                /\ FindLevel(levels, n) = 0 =>
                      /\ enableLevel(levels, n) = levels
                      /\ disableLevel(levels, n) = levels
                /\ OnOrUnknown(levels, n) =>
                      getLevelStats(enableLevel(disableLevel(levels, n), n))
                          = getLevelStats(levels)
       /\ (\E i \in Levels : EnableLevel(i) \/ DisableLevel(i)) =>
            /\ metrics' = metrics
            /\ \E n \in LevelNames :
                  /\ levels' \in {enableLevel(levels, n), disableLevel(levels, n)}
                  /\ OnlyEnabledDiffers(levels, levels', n)]_vars

\* a level was switched off after the metrics had counted a read, and the
\* other level is still on
C21_Witness ==
    /\ manager = "multi-level"
    /\ \E i, j \in DOMAIN levels :
        /\ ~levels[i].enabled /\ levels[j].enabled
        /\ metrics[levels[i].name].hits + metrics[levels[i].name].misses > 0

\* C21 as stated: disableLevel followed by enableLevel gives back the
\* getLevelStats() from before, whatever the level's flag was
C21_RoundTripRestoresStats ==
    manager = "multi-level" =>
        \A n \in LevelNames :
            getLevelStats(enableLevel(disableLevel(levels, n), n))
                = getLevelStats(levels)

----------------------------------------------------------------------------
(* Properties of the Write-Through manager *)

\* C22: every Record the Write-Through manager writes is permanent: the one
\* its set writes, whatever the caller's options say, and the one the
\* recompute of its get writes back on a miss.
C22_WriteThroughRecordsPermanent ==
    [][manager = "write-through" =>
        \A k \in Keys :
            (store'[k] # store[k] /\ store'[k] # NoRecord) => store'[k].permanent]_vars

\* a get whose options are not permanent missed, ran its executor and wrote
\* the result back
C22_Witness ==
    /\ manager = "write-through"
    /\ \E p \in Procs :
        /\ ctx[p].op = "get" /\ ctx[p].wrote /\ ~ctx[p].opts.permanent
        /\ store[ctx[p].key] # NoRecord
        /\ store[ctx[p].key].value = serialize(ctx[p].value)

\* client p starts a get whose storage.get returns
ReadsRecord(p) ==
    /\ pc[p] = "idle" /\ pc'[p] # "idle"
    /\ ctx'[p].op = "get" /\ ~ctx'[p].readFailed

\* C23: a Write-Through get without Bloom filter whose storage.get returned
\* a Record with a defined value returns that value and runs no executor,
\* whatever the Record's age and whatever its tags' versions; it enters the
\* recompute (it goes on to lockKey) only when the key holds no Record or one
\* with an undefined value.
C23_WriteThroughServesWhateverIsStored ==
    /\ [][\A p \in Procs :
            (manager = "write-through" /\ ~bloomEnabled /\ ReadsRecord(p)) =>
                LET k == ctx'[p].key
                    rec == store[k]
                IN  IF rec # NoRecord /\ rec.value # NoPayload
                    THEN /\ pc'[p] = "done"
                         /\ ctx'[p].outcome = "hit"
                         /\ ctx'[p].result = deserialize(rec.value)
                         /\ ctx'[p].execs = 0
                         /\ hist'[k].execs = hist[k].execs
                    ELSE /\ pc'[p] = "lockKey"
                         /\ ctx'[p].execs = 0]_vars
    /\ [](\A p \in Procs :
            (manager = "write-through" /\ ~bloomEnabled /\ DoneGet(p)
             /\ ~ctx[p].readFailed)
                => /\ ctx[p].outcome = "hit" => ctx[p].execs = 0
                   /\ ctx[p].outcome # "hit" => ctx[p].lockTried)

\* a get was served the Record the storage held from the start, past its
\* expiry and after a touch of its tag at a later clock reading
C23_Witness ==
    \E p \in Procs :
        /\ manager = "write-through" /\ ~bloomEnabled /\ DoneGet(p)
        /\ ctx[p].outcome = "hit" /\ ctx[p].execs = 0
        /\ ctx[p].result = StoredValue
        /\ ~ctx[p].sawValid /\ ctx[p].sawLater

----------------------------------------------------------------------------
(* Properties of the Refresh-Ahead manager *)

\* C24: a Refresh-Ahead manager built with a refreshAheadFactor <= 0, 0
\* included, or >= 1 does not exist: the constructor threw.
C24_FactorOutOfRangeRejected ==
    LET f == options.refreshAheadFactor
    IN  (f # NoFactor /\ (f <= 0 \/ f >= FactorDen)) => manager = NoManager

\* client p's get is served the fresh Record it read
ServesFresh(p) ==
    /\ manager = "refresh-ahead"
    /\ pc[p] = "isOutdated" /\ pc'[p] = "done" /\ ctx'[p].outcome = "hit"

\* now > createdAt + expiresIn * refreshAheadFactor, in FactorDen-ths
PastRefreshPoint(rec) ==
    /\ isFinite(refreshAheadFactor)
    /\ now * FactorDen > rec.createdAt * FactorDen + rec.expiresIn * refreshAheadFactor

RefreshesOf(k) == {p \in Procs : bg[p].key = k /\ bg[p].locked}

\* C26: for every key, no two background refreshes run their executor within
\* one TTL window: two that did were started at clock readings at least one
\* expiresIn apart.
C26_OneRefreshPerWindow ==
    manager = "refresh-ahead" =>
        \A k \in Keys : \A p, q \in RefreshesOf(k) :
            p # q => (bg[p].at >= bg[q].at + ExpiresIn \/ bg[q].at >= bg[p].at + ExpiresIn)

\* the same when no executor fails and no Storage call fails
C26_WithoutFailures ==
    (faults = 0 /\ \A p \in Procs : ~bg[p].execError) => C26_OneRefreshPerWindow

\* the refresh of client p is over after a failure of its own
RefreshFailed(p) ==
    /\ bg[p].pc = "idle"
    /\ \/ bg[p].locked /\ bg[p].released /\ ~bg[p].wrote
       \/ bg[p] # NoRefresh /\ ~bg[p].locked

\* C27: a background refresh runs after its get has been served and no step
\* of it, failing or not, changes the outcome or the value of any get; a
\* refresh whose executor failed writes nothing, the step in which the
\* executor fails leaves the stored Record as it was.
C27_RefreshFailureSwallowed ==
    /\ [](\A p \in Procs :
            (manager = "refresh-ahead" /\ bg[p] # NoRefresh) =>
                /\ DoneGet(p) /\ ctx[p].outcome = "hit" /\ ~ctx[p].failed
                /\ bg[p].execError => ~bg[p].wrote)
    /\ [][\A p \in Procs :
            (manager = "refresh-ahead" /\ bg'[p] # bg[p] /\ bg[p] # NoRefresh) =>
                /\ pc' = pc /\ ctx' = ctx
                /\ bg'[p].execError => store' = store]_vars

\* a refresh whose executor threw has released its lock; the get that fired
\* it was served the stored value and the Record is the one it read
C27_Witness ==
    \E p \in Procs :
        /\ manager = "refresh-ahead"
        /\ bg[p].execError /\ bg[p].released /\ bg[p].pc = "idle"
        /\ DoneGet(p) /\ ctx[p].outcome = "hit" /\ ctx[p].result = StoredValue
        /\ store[bg[p].key] = StoredRecord

----------------------------------------------------------------------------
(* The Bloom filter on its own *)

BloomKeys == {<<97>>, <<98>>, <<97, 98>>}

\* what was done to the filter: per key whether add was ever called, whether
\* it was called since the last clear, and the last answer of mightContain;
\* and the elementCount getStats last returned
NoAnswer == "none"
NoStats == -1
NoBloomCalls == [added |-> FALSE, sinceClear |-> FALSE, answer |-> NoAnswer]

BloomFilterInit ==
    /\ manager = NoManager
    /\ bloomEnabled = TRUE
    /\ bitArray = {}
    /\ elementCount = 0
    /\ hist = [calls |-> [k \in BloomKeys |-> NoBloomCalls], stats |-> NoStats]
    /\ levels = NewLevels
    /\ options = NewOptions
    /\ metrics = NewMetrics(levels)
    /\ now = 0
    /\ store = [k \in Keys |-> NoRecord]
    /\ tagStore = [n \in Tags |-> NoTag]
    /\ locks = [l \in LockKeys |-> NoLock]
    /\ pc = [p \in Procs |-> "idle"]
    /\ ctx = [p \in Procs |-> NoCall]
    /\ bg = [p \in Procs |-> NoRefresh]
    /\ faults = 0

\* nothing but the filter and the record of its calls changes
BloomFilterOnly ==
    UNCHANGED <<manager, bloomEnabled, now, store, tagStore, locks, pc, ctx, bg,
                faults, levels, options, metrics>>

\* add(key)
BloomFilterAdd(k) ==
    /\ elementCount < MaxAdds
    /\ bitArray' = BloomAdd(bitArray, k)
    /\ elementCount' = elementCount + 1
    /\ hist' = [hist EXCEPT !.calls[k].added = TRUE, !.calls[k].sinceClear = TRUE]
    /\ BloomFilterOnly

\* mightContain(key)
BloomFilterMightContain(k) ==
    /\ hist' = [hist EXCEPT !.calls[k].answer =
                               IF mightContain(bitArray, k) THEN "true" ELSE "false"]
    /\ UNCHANGED <<bitArray, elementCount>>
    /\ BloomFilterOnly

\* clear()
BloomFilterClear ==
    /\ bitArray' = {}
    /\ elementCount' = 0
    /\ hist' = [hist EXCEPT !.calls = [k \in BloomKeys |->
                                         [hist.calls[k] EXCEPT !.sinceClear = FALSE]]]
    /\ BloomFilterOnly

\* getStats()
BloomFilterGetStats ==
    /\ hist' = [hist EXCEPT !.stats = elementCount]
    /\ UNCHANGED <<bitArray, elementCount>>
    /\ BloomFilterOnly

BloomFilterNext ==
    \/ \E k \in BloomKeys : BloomFilterAdd(k)
    \/ \E k \in BloomKeys : BloomFilterMightContain(k)
    \/ BloomFilterClear
    \/ BloomFilterGetStats

BloomFilterSpec == BloomFilterInit /\ [][BloomFilterNext]_vars

\* C28: after any sequence of add, mightContain, clear and getStats, a key
\* added since the last clear is answered true by mightContain, and a key
\* mightContain answers false for has not been added since the last clear.
C28_AddedSinceClearMightContain ==
    /\ [](manager = NoManager =>
            \A k \in BloomKeys : hist.calls[k].sinceClear => mightContain(bitArray, k))
    /\ [][\A k \in BloomKeys :
            (manager = NoManager /\ BloomFilterMightContain(k)
             /\ hist'.calls[k].answer = "false") => ~hist.calls[k].sinceClear]_vars

\* two keys were added, mightContain answered true for both and false for
\* the third, and getStats counted the two
C28_Witness ==
    /\ manager = NoManager
    /\ \E j, k, l \in BloomKeys :
        /\ j # k
        /\ hist.calls[j].sinceClear /\ hist.calls[j].answer = "true"
        /\ hist.calls[k].sinceClear /\ hist.calls[k].answer = "true"
        /\ ~hist.calls[l].added /\ hist.calls[l].answer = "false"
    /\ hist.stats = 2

\* C28 as stated: a key add was ever called for is answered true
C28_AddedMightContain ==
    manager = NoManager =>
        \A k \in BloomKeys : hist.calls[k].added => mightContain(bitArray, k)

----------------------------------------------------------------------------
(* The Bloom pre-check of a manager over a storage that is not its own *)

\* a Read-Through manager with a Bloom filter, built over a storage that may
\* already hold a Record
SharedBloomInit == SharedStoreInit /\ manager = "read-through" /\ bloomEnabled

\* its steps; with one set to put the key into the filter, no two gets meet
\* at the lock and none waits
SharedBloomStep(p) ==
    \/ Get(p)
    \/ IsOutdatedStep(p)
    \/ LockKeyStep(p)
    \/ ExecLockedFinish(p)
    \/ SetTags(p)
    \/ SetWrite(p)
    \/ ReleaseKey(p)
    \/ ExecDirectFinish(p)
    \/ Set(p)

SharedBloomNext ==
    \/ \E p \in Procs : SharedBloomStep(p)
    \/ Touch
    \/ Tick

SharedBloomSpec == SharedBloomInit /\ [][SharedBloomNext]_vars

\* client p starts a get that the Bloom filter answers false for
SkipsRead(p) == pc[p] = "idle" /\ ctx'[p].op = "get" /\ ctx'[p].bloomNeg

\* C29: whenever the Bloom filter of a manager answers false for a key and
\* the get skips the storage read, the storage holds no fresh Record for the
\* key.
C29_BloomNegativeMeansNoFreshRecord ==
    [][\A p \in Procs :
        SkipsRead(p) => ~IsFresh(store[ctx'[p].key], now)]_vars

----------------------------------------------------------------------------
(* The locks of the in-memory adapter on their own *)

\* what the callers did with each lock: who holds it by the answers given,
\* until when, and the last answer each caller got
NoLockCalls ==
    [holders |-> {}, until |-> 0, acquired |-> [p \in Procs |-> NoAnswer],
     exists |-> NoAnswer]

\* the callers that were answered true and whose lock was neither released
\* nor has run out
HoldersNow(l) == IF now < hist[l].until THEN hist[l].holders ELSE {}

AdapterLockInit ==
    /\ manager = NoManager
    /\ bloomEnabled = FALSE
    /\ locks = [l \in LockKeys |-> NoLock]
    /\ now = 0
    /\ hist = [l \in LockKeys |-> NoLockCalls]
    /\ bitArray = {}
    /\ elementCount = 0
    /\ levels = NewLevels
    /\ options = NewOptions
    /\ metrics = NewMetrics(levels)
    /\ store = [k \in Keys |-> NoRecord]
    /\ tagStore = [n \in Tags |-> NoTag]
    /\ pc = [p \in Procs |-> "idle"]
    /\ ctx = [p \in Procs |-> NoCall]
    /\ bg = [p \in Procs |-> NoRefresh]
    /\ faults = 0

\* nothing but the locks and the record of the calls changes
AdapterLocksOnly ==
    UNCHANGED <<manager, bloomEnabled, now, store, tagStore, bitArray, elementCount,
                pc, ctx, bg, faults, levels, options, metrics>>

\* acquireLock(key, lockExpireTimeout) by caller p: the test and the write
\* are one synchronous block
AcquireLock(p, l) ==
    /\ manager = NoManager
    /\ LET free == ~IsLocked(l) IN
        /\ locks' = IF free THEN Acquire(l, p) ELSE locks
        /\ hist' = [hist EXCEPT
                      ![l].acquired[p] = IF free THEN "true" ELSE "false",
                      ![l].holders = IF free THEN HoldersNow(l) \cup {p} ELSE @,
                      ![l].until = IF free THEN now + LockExpire ELSE @]
    /\ AdapterLocksOnly

\* releaseLock(key), by any caller
ReleaseLock(l) ==
    /\ manager = NoManager
    /\ locks' = Release(l)
    /\ hist' = [hist EXCEPT ![l].holders = {}, ![l].until = 0]
    /\ AdapterLocksOnly

\* what isLockExists(key) answers: the item is there and not past expiresAt
isLockExists(l) == locks[l].held /\ ~(now > locks[l].expiresAt)

\* isLockExists(key): a lock past its expiresAt is deleted
IsLockExists(l) ==
    /\ manager = NoManager
    /\ locks' = IF locks[l].held /\ now > locks[l].expiresAt THEN Release(l) ELSE locks
    /\ hist' = [hist EXCEPT ![l].exists = IF isLockExists(l) THEN "true" ELSE "false"]
    /\ AdapterLocksOnly

AdapterLockNext ==
    \/ \E p \in Procs, l \in LockKeys : AcquireLock(p, l)
    \/ \E l \in LockKeys : ReleaseLock(l)
    \/ \E l \in LockKeys : IsLockExists(l)
    \/ Tick

AdapterLockSpec == AdapterLockInit /\ [][AdapterLockNext]_vars

\* C30: between an acquireLock(k) that was answered true and the next
\* releaseLock(k) or the end of the lock's timeout, every acquireLock(k) is
\* answered false and changes nothing, so that at most one caller holds the
\* lock at a time.
C30_LockExclusiveUntilReleaseOrExpiry ==
    /\ [](manager = NoManager /\ bloomEnabled = FALSE =>
            \A l \in LockKeys : Cardinality(HoldersNow(l)) <= 1)
    /\ [][\A p \in Procs, l \in LockKeys :
            (bloomEnabled = FALSE /\ AcquireLock(p, l) /\ HoldersNow(l) # {}) =>
                /\ hist'[l].acquired[p] = "false"
                /\ locks' = locks]_vars

\* one caller was answered true and still holds the lock, the other was
\* answered false after a tick of the clock
C30_Witness ==
    /\ manager = NoManager /\ bloomEnabled = FALSE
    /\ \E l \in LockKeys : \E p, q \in Procs :
        /\ p # q /\ now > 0
        /\ hist[l].acquired[p] = "true" /\ hist[l].acquired[q] = "false"
        /\ HoldersNow(l) = {p}
        /\ locks[l].expiresAt = LockExpire

\* C31: at every instant isLockExists and acquireLock agree on whether the
\* lock is still held: isLockExists answers true exactly when acquireLock
\* would answer false; and once the timeout of an unreleased lock has passed
\* isLockExists answers false and acquireLock succeeds.
C31_ExpiredLockAgreed ==
    (manager = NoManager /\ bloomEnabled = FALSE) =>
        \A l \in LockKeys :
            /\ isLockExists(l) <=> IsLocked(l)
            /\ (locks[l].held /\ now > locks[l].expiresAt)
                  => ~isLockExists(l) /\ ~IsLocked(l)

-----------------------------------------------------------------------------
(* InMemoryStorageAdapter alone: the Map of items behind set, mset, get,
   mget and del. The Map is a sequence of entries in insertion order; the
   lock entries of acquireLock live in the same Map under <key>_lock. *)

\* options.maxSize, as the eviction test builds the adapter
maxSize == 2

DataKeys == {"a", "b", "c"}
LockedKeys == {"a", "b"}
lockKey(key) == key \o "_lock"
endsWithLock(key) == key \in {lockKey(k) : k \in DataKeys}

\* the values and the expiresIn arguments passed to set
Values == {1, 2}
PassedExpiresIn == {NoExpiresIn, 0, ExpiresIn}
Null == 0

\* Map.has, Map.get, Map.delete and Map.set: a new key goes last, an
\* existing key keeps its place
IndexOf(m, key) ==
    IF \E i \in 1..Len(m) : m[i].key = key
    THEN CHOOSE i \in 1..Len(m) : m[i].key = key
    ELSE 0
has(m, key) == IndexOf(m, key) # 0
MapGet(m, key) == IF has(m, key) THEN m[IndexOf(m, key)].item ELSE NoItem
MapDelete(m, key) == SelectSeq(m, LAMBDA e : e.key # key)
MapSet(m, key, item) ==
    IF has(m, key) THEN [m EXCEPT ![IndexOf(m, key)].item = item]
    ELSE Append(m, [key |-> key, item |-> item])

\* the item set and mset store: NewItem and its createdAt
StoredItem(value, expiresIn, t) ==
    [kind |-> "item", value |-> value, expiresAt |-> NewItem(value, expiresIn, t).expiresAt,
     createdAt |-> t]

\* the positions of the entries that are not locks
DataEntries(m) == {i \in 1..Len(m) : ~endsWithLock(m[i].key)}

\* evicts the entry that comes first in the Map, whatever its createdAt
evictFirst(m) ==
    IF DataEntries(m) = {} THEN m
    ELSE MapDelete(m, m[CHOOSE i \in DataEntries(m) : \A j \in DataEntries(m) : i <= j].key)

\* InMemoryStorageAdapter.evictOldest: the entry with the smallest createdAt
\* that is not a lock, the first of them in the Map's order
evictOldest(m) ==
    IF DataEntries(m) = {} THEN m
    ELSE MapDelete(m, m[CHOOSE i \in DataEntries(m) : \A j \in DataEntries(m) :
                            \/ m[j].item.createdAt > m[i].item.createdAt
                            \/ m[j].item.createdAt = m[i].item.createdAt /\ i <= j].key)

\* set and mset make room before they add a new key to a full Map
MakeRoom(m, key) ==
    IF Len(m) >= maxSize /\ ~has(m, key) THEN evictOldest(m) ELSE m

\* InMemoryStorageAdapter.set
set(m, key, value, expiresIn, t) ==
    MapSet(MakeRoom(m, key), key, StoredItem(value, expiresIn, t))

\* InMemoryStorageAdapter.mset: the keys in the order of the Map passed,
\* every item without expiresAt
RECURSIVE mset(_, _, _, _)
mset(m, keys, value, t) ==
    IF keys = <<>> THEN m
    ELSE mset(set(m, Head(keys), value, NoExpiresIn, t), Tail(keys), value, t)

\* InMemoryStorageAdapter.get: the value returned and the Map left
get(m, key, t) ==
    IF ~has(m, key) THEN Null
    ELSE IF ItemExpired(MapGet(m, key), t) THEN Null
    ELSE MapGet(m, key).value
AfterGet(m, key, t) ==
    IF has(m, key) /\ ItemExpired(MapGet(m, key), t) THEN MapDelete(m, key) ELSE m

\* InMemoryStorageAdapter.mget: one clock reading for all the keys
RECURSIVE mget(_, _, _)
mget(m, keys, t) ==
    IF keys = <<>> THEN <<>>
    ELSE <<get(m, Head(keys), t)>> \o mget(AfterGet(m, Head(keys), t), Tail(keys), t)
RECURSIVE AfterMget(_, _, _)
AfterMget(m, keys, t) ==
    IF keys = <<>> THEN m
    ELSE AfterMget(AfterGet(m, Head(keys), t), Tail(keys), t)

\* InMemoryStorageAdapter.cleanup: the timer drops every expired entry
cleanup(m, t) == SelectSeq(m, LAMBDA e : ~ItemExpired(e.item, t))

\* what the caller last wrote under a key and when, and the last answer
NoWrite == [kind |-> "none"]
NoAnswerYet == [op |-> "none"]
KeyPairs == {<<"b", "c">>, <<"c", "a">>}
Written(value, expiresIn, t) ==
    [kind |-> "write", value |-> value, expiresIn |-> expiresIn, at |-> t]
RECURSIVE WrittenAll(_, _, _, _)
WrittenAll(w, keys, value, t) ==
    IF keys = <<>> THEN w
    ELSE WrittenAll([w EXCEPT ![Head(keys)] = Written(value, NoExpiresIn, t)],
                    Tail(keys), value, t)

InMemoryInit ==
    /\ manager = NoManager
    /\ bloomEnabled = FALSE
    /\ now = 0
    /\ store = <<>>
    /\ hist = [written |-> [k \in DataKeys |-> NoWrite], answer |-> NoAnswerYet]
    /\ locks = [l \in LockKeys |-> NoLock]
    /\ bitArray = {}
    /\ elementCount = 0
    /\ levels = NewLevels
    /\ options = NewOptions
    /\ metrics = NewMetrics(levels)
    /\ tagStore = [n \in Tags |-> NoTag]
    /\ pc = [p \in Procs |-> "idle"]
    /\ ctx = [p \in Procs |-> NoCall]
    /\ bg = [p \in Procs |-> NoRefresh]
    /\ faults = 0

InMemoryOnly ==
    UNCHANGED <<manager, bloomEnabled, now, tagStore, locks, bitArray, elementCount,
                pc, ctx, bg, faults, levels, options, metrics>>

\* the keys of the Map
KeysOf(m) == {m[i].key : i \in 1..Len(m)}

\* the caller's record keeps the keys the Map still holds
Kept(w, m) == [k \in DataKeys |-> IF has(m, k) THEN w[k] ELSE NoWrite]

StorageSet(key, value, expiresIn) ==
    /\ manager = NoManager
    /\ store' = set(store, key, value, expiresIn, now)
    /\ hist' = [written |-> Kept([hist.written EXCEPT ![key] =
                                      Written(value, expiresIn, now)], store'),
                answer |-> [op |-> "set", key |-> key, result |-> TRUE,
                            evicted |-> KeysOf(store) \ KeysOf(store')]]
    /\ InMemoryOnly

StorageMset(keys, value) ==
    /\ manager = NoManager
    /\ store' = mset(store, keys, value, now)
    /\ hist' = [written |-> Kept(WrittenAll(hist.written, keys, value, now), store'),
                answer |-> [op |-> "mset", keys |-> keys, result |-> TRUE,
                            evicted |-> KeysOf(store) \ KeysOf(store')]]
    /\ InMemoryOnly

StorageGet(key) ==
    /\ manager = NoManager
    /\ store' = AfterGet(store, key, now)
    /\ hist' = [written |-> Kept(hist.written, store'),
                answer |-> [op |-> "get", key |-> key, found |-> has(store, key),
                            result |-> get(store, key, now)]]
    /\ InMemoryOnly

StorageMget(keys) ==
    /\ manager = NoManager
    /\ store' = AfterMget(store, keys, now)
    /\ hist' = [written |-> Kept(hist.written, store'),
                answer |-> [op |-> "mget", keys |-> keys,
                            result |-> mget(store, keys, now)]]
    /\ InMemoryOnly

StorageDel(key) ==
    /\ manager = NoManager
    /\ store' = MapDelete(store, key)
    /\ hist' = [written |-> Kept(hist.written, store'),
                answer |-> [op |-> "del", key |-> key, result |-> has(store, key)]]
    /\ InMemoryOnly

\* acquireLock finds an unexpired lock entry
LockEntryHeld(m, key, t) ==
    IF has(m, lockKey(key)) THEN t < MapGet(m, lockKey(key)).expiresAt ELSE FALSE

\* InMemoryStorageAdapter.acquireLock puts the lock entry into the same Map,
\* without the eviction test
StorageAcquireLock(key) ==
    /\ manager = NoManager
    /\ store' = IF LockEntryHeld(store, key, now) THEN store
                ELSE MapSet(store, lockKey(key),
                            [kind |-> "item", value |-> Null,
                             expiresAt |-> now + LockExpire, createdAt |-> now])
    /\ hist' = [hist EXCEPT !.answer = [op |-> "acquireLock", key |-> key,
                                        result |-> ~LockEntryHeld(store, key, now)]]
    /\ InMemoryOnly

StorageCleanup ==
    /\ manager = NoManager
    /\ store' = cleanup(store, now)
    /\ hist' = [written |-> Kept(hist.written, store'), answer |-> [op |-> "cleanup"]]
    /\ InMemoryOnly

\* the data operations, the timer and the clock
InMemoryNext ==
    \/ \E k \in DataKeys, v \in Values, e \in PassedExpiresIn : StorageSet(k, v, e)
    \/ \E ks \in KeyPairs, v \in Values : StorageMset(ks, v)
    \/ \E k \in DataKeys : StorageGet(k)
    \/ \E ks \in KeyPairs : StorageMget(ks)
    \/ \E k \in DataKeys : StorageDel(k)
    \/ StorageCleanup
    \/ Tick

InMemorySpec == InMemoryInit /\ [][InMemoryNext]_vars

\* the time to live the caller gave with the last write has run out: set with
\* no expiresIn, with 0, or mset give none
Elapsed(w, t) == w.expiresIn \notin {NoExpiresIn, 0} /\ t > w.at + w.expiresIn

\* what a read of the key is to answer, by what the caller last wrote under
\* it: nothing for a key never written, deleted or evicted since
LastSet(w, k, t) == IF w[k] = NoWrite \/ Elapsed(w[k], t) THEN Null ELSE w[k].value

\* C32: as long as the entry was not evicted, get(k) and mget answer the value
\* last set for k until its expiresIn has elapsed and null afterwards, and
\* that read removes the expired entry; a value set without expiresIn or by
\* mset is answered at any time; del(k) answers true exactly when the Map
\* held k, and get(k) answers null after it.
C32_GetAnswersLastSetUntilExpiry ==
    [][/\ (hist'.answer.op = "get" /\ now' = now) =>
              \A k \in {hist'.answer.key} :
                  /\ hist'.answer.result = LastSet(hist.written, k, now)
                  /\ (hist.written[k] # NoWrite /\ Elapsed(hist.written[k], now))
                         => ~has(store', k)
       /\ (hist'.answer.op = "mget" /\ now' = now) =>
              \A ks \in {hist'.answer.keys} :
                  /\ hist'.answer.result = <<LastSet(hist.written, ks[1], now),
                                             LastSet(hist.written, ks[2], now)>>
                  /\ \A i \in 1..2 :
                         (/\ hist.written[ks[i]] # NoWrite
                          /\ Elapsed(hist.written[ks[i]], now)) => ~has(store', ks[i])
       /\ (hist'.answer.op = "del" /\ now' = now) =>
              \A k \in {hist'.answer.key} :
                  /\ hist'.answer.result = (hist.written[k] # NoWrite)
                  /\ get(store', k, now) = Null]_vars

\* a get found an entry whose time to live had run out and answered null
C32_Witness ==
    /\ manager = NoManager
    /\ hist.answer.op = "get"
    /\ hist.answer.found
    /\ hist.answer.result = Null

\* the adapter with its lock entries in the Map: writes, deletes, locks and
\* the clock
EvictionNext ==
    \/ \E k \in DataKeys : StorageSet(k, 1, NoExpiresIn)
    \/ \E ks \in KeyPairs : StorageMset(ks, 1)
    \/ \E k \in DataKeys : StorageDel(k)
    \/ \E k \in LockedKeys : StorageAcquireLock(k)
    \/ Tick

EvictionSpec == InMemoryInit /\ [][EvictionNext]_vars

\* adding the key to the Map m gave m2: the key is stored and every other
\* entry that is left is as it was
OthersKept(m, key, m2) ==
    /\ has(m2, key)
    /\ \A k \in KeysOf(m2) \ {key} : has(m, k) /\ MapGet(m2, k) = MapGet(m, k)

\* the one entry that left is the oldest that is not a lock, the first of the
\* oldest in insertion order
EvictedOldest(m, m2) ==
    \E i \in DataEntries(m) :
        /\ KeysOf(m) \ KeysOf(m2) = {m[i].key}
        /\ \A j \in DataEntries(m) :
               /\ m[i].item.createdAt <= m[j].item.createdAt
               /\ m[i].item.createdAt = m[j].item.createdAt => i <= j

\* the eviction rule as stated: a new key added to a Map of maxSize entries
\* or more evicts exactly the oldest entry that is not a lock
EvictsOneWhenFull(m, key, m2) ==
    /\ OthersKept(m, key, m2)
    /\ IF ~has(m, key) /\ Len(m) >= maxSize THEN EvictedOldest(m, m2)
       ELSE KeysOf(m) \subseteq KeysOf(m2)

\* the same rule, with nothing to evict in a Map that holds only locks
EvictsOneUnlessOnlyLocks(m, key, m2) ==
    /\ OthersKept(m, key, m2)
    /\ IF ~has(m, key) /\ Len(m) >= maxSize /\ DataEntries(m) # {}
       THEN EvictedOldest(m, m2)
       ELSE KeysOf(m) \subseteq KeysOf(m2)

\* the step is a set, or an mset, of the keys in the answer it leaves
IsSet == hist'.answer.op = "set" /\ now' = now
IsMset == hist'.answer.op = "mset" /\ now' = now
AfterFirst(ks) == set(store, ks[1], hist'.written[ks[2]].value, NoExpiresIn, now)

\* C33 as stated: every set or mset of a new key into a Map that holds maxSize
\* entries evicts exactly one entry, the oldest that is not a lock, and keeps
\* the rest; an overwrite evicts nothing.
C33_NewKeyInFullMapEvictsOne ==
    [][/\ IsSet => EvictsOneWhenFull(store, hist'.answer.key, store')
       /\ IsMset => \A mid \in {AfterFirst(hist'.answer.keys)} :
              /\ EvictsOneWhenFull(store, hist'.answer.keys[1], mid)
              /\ EvictsOneWhenFull(mid, hist'.answer.keys[2], store')]_vars

\* C33: a set or mset of a new key into a Map that holds maxSize entries or
\* more, one of them not a lock, evicts exactly one entry: the entry with the
\* smallest createdAt that is not a lock, the first of them in insertion
\* order; when the Map holds only locks nothing is evicted. The new key is
\* stored, every other entry stays as it was, an overwrite evicts nothing,
\* and the Map never holds more than maxSize entries that are not locks.
C33_NewKeyEvictsOldestUnlessOnlyLocks ==
    [][/\ IsSet => EvictsOneUnlessOnlyLocks(store, hist'.answer.key, store')
       /\ IsMset => \A mid \in {AfterFirst(hist'.answer.keys)} :
              /\ EvictsOneUnlessOnlyLocks(store, hist'.answer.keys[1], mid)
              /\ EvictsOneUnlessOnlyLocks(mid, hist'.answer.keys[2], store')
       /\ Cardinality(DataEntries(store')) <= maxSize]_vars

\* a set added a new key to a full Map that holds a lock entry, and the entry
\* that left was not the first in the Map
C33_Witness ==
    /\ manager = NoManager
    /\ hist.answer.op = "set"
    /\ hist.answer.evicted # {}
    /\ hist.answer.key \notin hist.answer.evicted
    /\ \E i \in 1..Len(store) : endsWithLock(store[i].key)
    /\ \E i \in DataEntries(store) :
           store[i].key # hist.answer.key /\ store[i].item.createdAt < now

-----------------------------------------------------------------------------
(* Read-Through and Refresh-Ahead with touches that come in while an
   executor is under way *)

TouchRaceInit ==
    /\ manager \in {"read-through", "refresh-ahead"}
    /\ bloomEnabled = FALSE
    /\ hist = [k \in Keys |-> [NoHist EXCEPT !.watch = TRUE]]
    /\ levels = NewLevels
    /\ options = NewOptions
    /\ metrics = NewMetrics(levels)
    /\ now = 0
    /\ store \in [Keys -> {NoRecord, StoredRecord}]
    /\ tagStore = [n \in Tags |-> NoTag]
    /\ locks = [l \in LockKeys |-> NoLock]
    /\ bitArray = {}
    /\ elementCount = 0
    /\ pc = [p \in Procs |-> "idle"]
    /\ ctx = [p \in Procs |-> NoCall]
    /\ bg = [p \in Procs |-> NoRefresh]
    \* the storage fails no call
    /\ faults = MaxFaults

TouchRaceNext ==
    \/ \E p \in Procs : RefreshAheadStep(p)
    \/ \E p \in Procs : Refresh(p)
    \/ Touch
    \/ Tick

TouchRaceSpec == TouchRaceInit /\ [][TouchRaceNext]_vars

\* C34: no get of Read-Through or Refresh-Ahead serves from the cache the
\* value of an executor that a completed touch of the Record's tag overtook:
\* the Record a write-back or a background refresh stores after such a touch
\* does not pass the isOutdated check of a later get.
C34_OvertakenValueNeverServed ==
    [][\A p \in Procs :
           ~(/\ manager \in {"read-through", "refresh-ahead"}
             /\ pc[p] = "isOutdated"
             /\ pc'[p] = "done"
             /\ ctx'[p].outcome = "hit"
             /\ store[ctx[p].key] = ctx[p].rec
             /\ hist[ctx[p].key].overtaken)]_vars

\* the refresh of client p holds the refreshAhead lock of its key
HoldsRefreshLock(p) ==
    /\ locks[RefreshAheadKey(bg[p].key)].held
    /\ locks[RefreshAheadKey(bg[p].key)].owner = p

\* C35: a background refresh that acquired the refreshAhead lock and is over
\* has issued releaseKey, after a failed executor and after a failed write as
\* after a success, and unless that releaseKey itself failed it leaves no
\* lock of its own behind; a refreshAhead lock that is held belongs to a
\* refresh that is still under way or whose releaseKey failed, so that the
\* lock of a refresh that failed is free for the next; a refresh that did
\* not acquire the lock has run no executor and written nothing.
C35_RefreshLockReleased ==
    manager = "refresh-ahead" =>
        /\ \A p \in Procs :
            /\ (bg[p].locked /\ bg[p].pc = "idle") =>
                   /\ bg[p].released
                   /\ ~bg[p].relFailed => ~HoldsRefreshLock(p)
            /\ (bg[p] # NoRefresh /\ ~bg[p].locked) =>
                   /\ bg[p].pc \in {"lockKey", "idle"}
                   /\ ~bg[p].wrote /\ ~bg[p].execError /\ bg[p].value = 0
        /\ \A k \in Keys :
            locks[RefreshAheadKey(k)].held =>
                \E p \in Procs :
                    /\ bg[p].key = k /\ bg[p].locked
                    /\ locks[RefreshAheadKey(k)].owner = p
                    /\ bg[p].pc # "idle" \/ bg[p].relFailed

\* a refresh whose executor threw has released its lock, and the refresh of a
\* later get has acquired it
C35_Witness ==
    \E p, q \in Procs :
        /\ manager = "refresh-ahead"
        /\ bg[p].locked /\ bg[p].execError /\ bg[p].released /\ ~bg[p].relFailed
        /\ bg[p].pc = "idle"
        /\ q # p /\ bg[q].locked /\ bg[q].pc = "exec" /\ HoldsRefreshLock(q)

\* the counters after the step are those before it, with one more under the
\* field of the level of that name
OneMore(name, field) ==
    /\ \A n \in DOMAIN metrics \ {name} : metrics'[n] = metrics[n]
    /\ metrics'[name][field] = metrics[name][field] + 1
    /\ \A f \in DOMAIN metrics[name] \ {field} : metrics'[name][f] = metrics[name][f]

\* the last entry the step of a call has added to one of its lists
Added(before, after) == Len(after) > Len(before)
Last(list) == list[Len(list)]

\* what a step does to the counters: none decreases; a get's read of a level
\* counts one hit or one miss of that level, which is enabled, and a hit ends
\* the get; a write counts one set of its level unless it threw, a delete
\* one del when the level answered true; every other step leaves the
\* counters alone
CountersFollowCalls(p) ==
    LET c == ctx[p]
        d == ctx'[p]
    IN
    /\ \A n \in DOMAIN metrics : \A f \in DOMAIN metrics[n] :
           metrics'[n][f] >= metrics[n][f]
    /\ Added(c.reads, d.reads) =>
           \A r \in {Last(d.reads)} :
               /\ levels[r.level].enabled
               /\ OneMore(levels[r.level].name, "hits")
                      \/ OneMore(levels[r.level].name, "misses")
               /\ OneMore(levels[r.level].name, "hits") =>
                      /\ pc'[p] = "done"
                      /\ ~r.threw /\ r.value # NoPayload
    /\ Added(c.sets, d.sets) =>
           \A w \in {Last(d.sets)} :
               /\ levels[w.level].enabled
               /\ IF w.threw THEN metrics' = metrics
                  ELSE OneMore(levels[w.level].name, "sets")
    /\ Added(c.dels, d.dels) =>
           \A x \in {Last(d.dels)} :
               /\ levels[x.level].enabled
               /\ IF x.result THEN OneMore(levels[x.level].name, "dels")
                  ELSE metrics' = metrics
               /\ x.result => ~x.threw /\ levels[x.level].items[c.key] # NoItem
    /\ (~Added(c.reads, d.reads) /\ ~Added(c.sets, d.sets) /\ ~Added(c.dels, d.dels))
           => metrics' = metrics

\* the write-back of a get reaches only levels the get has consulted
WritesBackConsulted(p) ==
    (ctx[p].op = "get" /\ Added(ctx[p].sets, ctx'[p].sets))
        => Last(ctx'[p].sets).level \in ctx[p].seenEnabled

-----------------------------------------------------------------------------
(* MongoDBStorageAdapter: the lock is the document <key>_lock, written by an
   updateOne with upsert. Every lock is taken with the same timeout, so the
   document's updatedAt is its expiresAt less the timeout and is not kept. *)

\* updateOne({_id: lockKey}, {$set: ...}, {upsert: true}): upsertedCount is 1
\* when no document was there, modifiedCount is 1 when the document that was
\* there has changed
upsertedCount(l) == IF locks[l].held THEN 0 ELSE 1
modifiedCount(l) == IF locks[l].held /\ locks[l].expiresAt # now + LockExpire THEN 1 ELSE 0

\* MongoDBStorageAdapter.acquireLock by caller p
MongoAcquireLock(p, l) ==
    /\ manager = NoManager
    /\ \E result \in {upsertedCount(l) > 0 \/ modifiedCount(l) > 0} :
        /\ locks' = IF result THEN Acquire(l, p) ELSE locks
        /\ hist' = [hist EXCEPT
                      ![l].acquired[p] = IF result THEN "true" ELSE "false",
                      ![l].holders = IF result THEN HoldersNow(l) \cup {p} ELSE @,
                      ![l].until = IF result THEN now + LockExpire ELSE @]
    /\ AdapterLocksOnly

\* MongoDBStorageAdapter.releaseLock: deleteOne
MongoReleaseLock(l) ==
    /\ manager = NoManager
    /\ locks' = Release(l)
    /\ hist' = [hist EXCEPT ![l].holders = {}, ![l].until = 0]
    /\ AdapterLocksOnly

\* MongoDBStorageAdapter.isLockExists: findOne with expiresAt > now
MongoIsLockExists(l) ==
    /\ manager = NoManager
    /\ hist' = [hist EXCEPT ![l].exists =
                  IF locks[l].held /\ locks[l].expiresAt > now THEN "true" ELSE "false"]
    /\ UNCHANGED locks
    /\ AdapterLocksOnly

\* the TTL index on expiresAt (expireAfterSeconds: 0): the server deletes a
\* document whose expiresAt is reached, at some time of its own
MongoExpire(l) ==
    /\ manager = NoManager
    /\ locks[l].held
    /\ now >= locks[l].expiresAt
    /\ locks' = Release(l)
    /\ UNCHANGED hist
    /\ AdapterLocksOnly

MongoLockNext ==
    \/ \E p \in Procs, l \in LockKeys : MongoAcquireLock(p, l)
    \/ \E l \in LockKeys : MongoReleaseLock(l)
    \/ \E l \in LockKeys : MongoIsLockExists(l)
    \/ \E l \in LockKeys : MongoExpire(l)
    \/ Tick

MongoLockSpec == AdapterLockInit /\ [][MongoLockNext]_vars

\* C37: while a lock an acquireLock(k) obtained is neither released nor
\* expired, every acquireLock(k) is answered false, so that no two callers
\* hold the lock of a key at once.
C37_MongoLockExclusive ==
    /\ [](\A l \in LockKeys : Cardinality(HoldersNow(l)) <= 1)
    /\ [][\A p \in Procs, l \in LockKeys :
            (MongoAcquireLock(p, l) /\ HoldersNow(l) # {})
                => hist'[l].acquired[p] = "false"]_vars

-----------------------------------------------------------------------------
(* FilesystemStorageAdapter: the lock is the file <key>.lock.json, created
   with the flag wx. acquireLock awaits every file operation, so the calls
   of two clients interleave between them. *)

\* the lockExpireTimeout passed with acquireLock, shorter than the default
ShortLockExpire == LockExpire - 1

\* the locals of an acquireLock call: the key, the lockData it will write
\* and the lock it has read
NoLocals == [key |-> LockOf(KeyA), lockData |-> NoLock, lock |-> NoLock]

FilesystemInit ==
    /\ manager = NoManager
    /\ bloomEnabled = FALSE
    /\ locks = [l \in LockKeys |-> NoLock]
    /\ now = 0
    /\ hist = [l \in LockKeys |-> NoLockCalls]
    /\ pc = [p \in Procs |-> "idle"]
    /\ ctx = [p \in Procs |-> NoLocals]
    /\ bitArray = {}
    /\ elementCount = 0
    /\ levels = NewLevels
    /\ options = NewOptions
    /\ metrics = NewMetrics(levels)
    /\ store = [k \in Keys |-> NoRecord]
    /\ tagStore = [n \in Tags |-> NoTag]
    /\ bg = [p \in Procs |-> NoRefresh]
    /\ faults = 0

FilesystemOnly ==
    UNCHANGED <<manager, bloomEnabled, store, tagStore, bitArray, elementCount,
                bg, faults, levels, options, metrics>>

\* the callers that were answered true for a lock that is neither released
\* nor past its expiresAt
FsHoldersNow(l) == IF now <= hist[l].until THEN hist[l].holders ELSE {}

\* acquireLock answers: true with the caller's lock file written, or false
FsAnswer(p, l, result) ==
    [hist EXCEPT ![l].acquired[p] = IF result THEN "true" ELSE "false",
                 ![l].holders = IF result THEN FsHoldersNow(l) \cup {p} ELSE @,
                 ![l].until = IF result THEN ctx[p].lockData.expiresAt ELSE @]

\* the lock read is past its expiresAt
FsExpired(lock, t) == t > lock.expiresAt

\* acquireLock(key, lockExpireTimeout): lockData is composed, mkdir awaited
FsAcquireLock(p, l) ==
    /\ manager = NoManager
    /\ pc[p] = "idle"
    /\ pc' = [pc EXCEPT ![p] = "writeFile"]
    /\ ctx' = [ctx EXCEPT ![p] =
                 [NoLocals EXCEPT !.key = l,
                                  !.lockData = [held |-> TRUE, owner |-> p,
                                                expiresAt |-> now + ShortLockExpire]]]
    /\ UNCHANGED <<now, locks, hist>>
    /\ FilesystemOnly

\* writeFile(lockFilePath, lockData, {flag: "wx"}): fails if the file exists
FsWriteFile(p) ==
    /\ manager = NoManager
    /\ pc[p] = "writeFile"
    /\ IF ~locks[ctx[p].key].held
       THEN /\ locks' = [locks EXCEPT ![ctx[p].key] = ctx[p].lockData]
            /\ hist' = FsAnswer(p, ctx[p].key, TRUE)
            /\ pc' = [pc EXCEPT ![p] = "idle"]
       ELSE /\ pc' = [pc EXCEPT ![p] = "readFile"]
            /\ UNCHANGED <<locks, hist>>
    /\ UNCHANGED <<now, ctx>>
    /\ FilesystemOnly

\* readFile(lockFilePath): the lock that is there; a lock not expired, or no
\* file any more, ends the call with false
FsReadFile(p) ==
    /\ manager = NoManager
    /\ pc[p] = "readFile"
    /\ IF locks[ctx[p].key].held /\ FsExpired(locks[ctx[p].key], now)
       THEN /\ pc' = [pc EXCEPT ![p] = "unlink"]
            /\ ctx' = [ctx EXCEPT ![p].lock = locks[ctx[p].key]]
            /\ UNCHANGED hist
       ELSE /\ pc' = [pc EXCEPT ![p] = "idle"]
            /\ hist' = FsAnswer(p, ctx[p].key, FALSE)
            /\ UNCHANGED ctx
    /\ UNCHANGED <<now, locks>>
    /\ FilesystemOnly

\* unlink(lockFilePath): removes the file that is there now
FsUnlink(p) ==
    /\ manager = NoManager
    /\ pc[p] = "unlink"
    /\ IF locks[ctx[p].key].held
       THEN /\ locks' = Release(ctx[p].key)
            /\ pc' = [pc EXCEPT ![p] = "rewrite"]
            /\ UNCHANGED hist
       ELSE /\ pc' = [pc EXCEPT ![p] = "idle"]
            /\ hist' = FsAnswer(p, ctx[p].key, FALSE)
            /\ UNCHANGED locks
    /\ UNCHANGED <<now, ctx>>
    /\ FilesystemOnly

\* the second writeFile with the flag wx
FsRewrite(p) ==
    /\ manager = NoManager
    /\ pc[p] = "rewrite"
    /\ pc' = [pc EXCEPT ![p] = "idle"]
    /\ IF ~locks[ctx[p].key].held
       THEN /\ locks' = [locks EXCEPT ![ctx[p].key] = ctx[p].lockData]
            /\ hist' = FsAnswer(p, ctx[p].key, TRUE)
       ELSE /\ hist' = FsAnswer(p, ctx[p].key, FALSE)
            /\ UNCHANGED locks
    /\ UNCHANGED <<now, ctx>>
    /\ FilesystemOnly

\* releaseLock(key): unlink
FsReleaseLock(l) ==
    /\ manager = NoManager
    /\ locks[l].held
    /\ locks' = Release(l)
    /\ hist' = [hist EXCEPT ![l].holders = {}, ![l].until = 0]
    /\ UNCHANGED <<now, pc, ctx>>
    /\ FilesystemOnly

\* the clock, for this adapter
FsTick ==
    /\ now < MaxTime
    /\ now' = now + 1
    /\ UNCHANGED <<locks, hist, pc, ctx>>
    /\ FilesystemOnly

FilesystemNext ==
    \/ \E p \in Procs, k \in Keys : FsAcquireLock(p, LockOf(k))
    \/ \E p \in Procs : FsWriteFile(p)
    \/ \E p \in Procs : FsReadFile(p)
    \/ \E p \in Procs : FsUnlink(p)
    \/ \E p \in Procs : FsRewrite(p)
    \/ \E k \in Keys : FsReleaseLock(LockOf(k))
    \/ FsTick

FilesystemSpec == FilesystemInit /\ [][FilesystemNext]_vars

\* C38: whatever the interleaving of the acquireLock calls, at most one
\* caller has been answered true for a lock that is neither released nor
\* expired, callers that take over an expired lock file included.
C38_FilesystemLockExclusive ==
    \A l \in LockKeys : Cardinality(FsHoldersNow(l)) <= 1

-----------------------------------------------------------------------------
(* PostgreSQL adapter: the lock is the row <key>_lock of the cache table *)

\* the row is there and its expires_at is later than CURRENT_TIMESTAMP
pgLockExists(l) == locks[l].held /\ locks[l].expiresAt > now

\* acquireLock by caller p: INSERT ... ON CONFLICT (cache_key) DO NOTHING,
\* answered with rowCount > 0
PgAcquireLock(p, l) ==
    /\ manager = NoManager
    /\ \E rowCount \in {IF locks[l].held THEN 0 ELSE 1} :
        /\ locks' = IF rowCount > 0
                    THEN [locks EXCEPT ![l] = [held |-> TRUE, owner |-> p,
                                               expiresAt |-> now + ShortLockExpire]]
                    ELSE locks
        /\ hist' = [hist EXCEPT
                      ![l].acquired[p] = IF rowCount > 0 THEN "true" ELSE "false",
                      ![l].holders = IF rowCount > 0 THEN {p} ELSE @,
                      ![l].until = IF rowCount > 0 THEN now + ShortLockExpire ELSE @]
    /\ AdapterLocksOnly

\* releaseLock: DELETE of the row
PgReleaseLock(l) ==
    /\ manager = NoManager
    /\ locks' = Release(l)
    /\ hist' = [hist EXCEPT ![l].holders = {}, ![l].until = 0]
    /\ AdapterLocksOnly

\* isLockExists: SELECT with expires_at > CURRENT_TIMESTAMP
PgIsLockExists(l) ==
    /\ manager = NoManager
    /\ hist' = [hist EXCEPT ![l].exists = IF pgLockExists(l) THEN "true" ELSE "false"]
    /\ UNCHANGED locks
    /\ AdapterLocksOnly

\* cleanup(), called by the application: DELETE of the rows with
\* expires_at <= CURRENT_TIMESTAMP
PgCleanup ==
    /\ manager = NoManager
    /\ locks' = [l \in LockKeys |->
                   IF locks[l].held /\ locks[l].expiresAt <= now THEN NoLock ELSE locks[l]]
    /\ UNCHANGED hist
    /\ AdapterLocksOnly

PostgresNext ==
    \/ \E p \in Procs, l \in LockKeys : PgAcquireLock(p, l)
    \/ \E l \in LockKeys : PgReleaseLock(l)
    \/ \E l \in LockKeys : PgIsLockExists(l)
    \/ PgCleanup
    \/ Tick

PostgresSpec == AdapterLockInit /\ [][PostgresNext]_vars

\* C39: an acquireLock(k) on a lock whose expires_at has passed, and for
\* which isLockExists(k) answers false, is answered true, with no
\* releaseLock and no cleanup in between.
C39_ExpiredLockAcquired ==
    [][\A p \in Procs, l \in LockKeys :
           (/\ PgAcquireLock(p, l)
            /\ locks[l].held /\ now > locks[l].expiresAt /\ ~pgLockExists(l))
               => hist'[l].acquired[p] = "true"]_vars

----------------------------------------------------------------------------
(* The SQLite adapter: one row per key, the lock in two columns of the row *)

\* the owner every acquireLock writes: the one string 'lock_owner'
LockOwner == 1

\* no row for the key, and the row an INSERT OR REPLACE leaves: the columns
\* it does not name are NULL
NoRow == [kind |-> "none"]
InsertedRow(value, expiresIn, t) ==
    [kind |-> "row", value |-> value, created_at |-> t,
     expires_at |-> IF expiresIn = NoExpiresIn THEN Null ELSE t + expiresIn,
     lock_owner |-> Null, lock_expires_at |-> Null]

\* what the callers did with the lock of each key, and the last answer given
NoSqlCalls == [held |-> FALSE, until |-> 0]

\* by the answers given, the lock of key is held: acquireLock was answered
\* true, no releaseLock came since and its lockExpiresAt has not passed
SqlHeldByAnswers(h, key, t) == h.calls[key].held /\ t <= h.calls[key].until

SQLiteInit ==
    /\ manager = NoManager
    /\ bloomEnabled = FALSE
    /\ store = [k \in LockedKeys |-> NoRow]
    /\ now = 0
    /\ hist = [calls |-> [k \in LockedKeys |-> NoSqlCalls], answer |-> NoAnswerYet]
    /\ pc = [p \in Procs |-> "idle"]
    /\ ctx = [p \in Procs |-> [key |-> "a"]]
    /\ locks = [l \in LockKeys |-> NoLock]
    /\ bitArray = {}
    /\ elementCount = 0
    /\ levels = NewLevels
    /\ options = NewOptions
    /\ metrics = NewMetrics(levels)
    /\ tagStore = [n \in Tags |-> NoTag]
    /\ bg = [p \in Procs |-> NoRefresh]
    /\ faults = 0

SQLiteOnly ==
    UNCHANGED <<manager, bloomEnabled, locks, tagStore, bitArray, elementCount,
                bg, faults, levels, options, metrics>>

\* the row has a lock that is not past its lock_expires_at: what
\* isLockExists answers from the row it selects
rowLocked(row, t) ==
    /\ row # NoRow
    /\ row.lock_owner # Null
    /\ ~(row.lock_expires_at # Null /\ row.lock_expires_at < t)

\* the changes of acquireLock's UPDATE ... WHERE key = ? AND (lock_owner IS
\* NULL OR lock_expires_at < now)
changes(row, t) ==
    IF row # NoRow /\ (row.lock_owner = Null \/ row.lock_expires_at < t) THEN 1 ELSE 0

\* set(key, value, expiresIn): INSERT OR REPLACE of the whole row
SqlSet(key, value, expiresIn) ==
    /\ manager = NoManager
    /\ store' = [store EXCEPT ![key] = InsertedRow(value, expiresIn, now)]
    /\ hist' = [hist EXCEPT !.answer = [op |-> "set", key |-> key, result |-> TRUE]]
    /\ UNCHANGED <<now, pc, ctx>>
    /\ SQLiteOnly

\* del(key): DELETE of the row
SqlDel(key) ==
    /\ manager = NoManager
    /\ store' = [store EXCEPT ![key] = NoRow]
    /\ hist' = [hist EXCEPT !.answer = [op |-> "del", key |-> key,
                                        result |-> store[key] # NoRow]]
    /\ UNCHANGED <<now, pc, ctx>>
    /\ SQLiteOnly

\* acquireLock(key, lockExpireTimeout): one UPDATE, answered with changes > 0
SqlAcquireLock(key) ==
    /\ manager = NoManager
    /\ \E acquired \in {changes(store[key], now) > 0} :
        /\ store' = IF acquired
                    THEN [store EXCEPT ![key].lock_owner = LockOwner,
                                       ![key].lock_expires_at = now + ShortLockExpire]
                    ELSE store
        /\ hist' = [hist EXCEPT
                      !.calls[key] = IF acquired
                                     THEN [held |-> TRUE, until |-> now + ShortLockExpire]
                                     ELSE @,
                      !.answer = [op |-> "acquireLock", key |-> key, result |-> acquired]]
    /\ UNCHANGED <<now, pc, ctx>>
    /\ SQLiteOnly

\* releaseLock(key): UPDATE ... WHERE key = ? AND lock_owner IS NOT NULL
SqlReleaseLock(key) ==
    /\ manager = NoManager
    /\ \E released \in {store[key] # NoRow /\ store[key].lock_owner # Null} :
        /\ store' = IF released
                    THEN [store EXCEPT ![key].lock_owner = Null,
                                       ![key].lock_expires_at = Null]
                    ELSE store
        /\ hist' = [hist EXCEPT
                      !.calls[key].held = FALSE,
                      !.answer = [op |-> "releaseLock", key |-> key, result |-> released]]
    /\ UNCHANGED <<now, pc, ctx>>
    /\ SQLiteOnly

\* isLockExists(key) by caller p: the SELECT; a lock past its
\* lock_expires_at is cleared by a second statement
SqlIsLockExists(p, key) ==
    /\ manager = NoManager
    /\ pc[p] = "idle"
    /\ \E row \in {store[key]} :
        IF row # NoRow /\ row.lock_owner # Null /\ ~rowLocked(row, now)
        THEN /\ pc' = [pc EXCEPT ![p] = "clearLock"]
             /\ ctx' = [ctx EXCEPT ![p] = [key |-> key]]
             /\ hist' = [hist EXCEPT !.answer = [op |-> "select", key |-> key,
                                                 result |-> FALSE]]
        ELSE /\ hist' = [hist EXCEPT !.answer = [op |-> "isLockExists", key |-> key,
                                                 result |-> rowLocked(row, now)]]
             /\ UNCHANGED <<pc, ctx>>
    /\ UNCHANGED <<now, store>>
    /\ SQLiteOnly

\* isLockExists: UPDATE ... SET lock_owner = NULL, lock_expires_at = NULL
\* WHERE key = ?, then false
SqlClearLock(p) ==
    /\ manager = NoManager
    /\ pc[p] = "clearLock"
    /\ pc' = [pc EXCEPT ![p] = "idle"]
    /\ store' = IF store[ctx[p].key] # NoRow
                THEN [store EXCEPT ![ctx[p].key].lock_owner = Null,
                                   ![ctx[p].key].lock_expires_at = Null]
                ELSE store
    /\ hist' = [hist EXCEPT !.answer = [op |-> "isLockExists", key |-> ctx[p].key,
                                        result |-> FALSE]]
    /\ UNCHANGED <<now, ctx>>
    /\ SQLiteOnly

\* cleanup() by caller p: DELETE of the rows past their expires_at
SqlCleanup(p) ==
    /\ manager = NoManager
    /\ pc[p] = "idle"
    /\ pc' = [pc EXCEPT ![p] = "cleanupLocks"]
    /\ store' = [k \in LockedKeys |->
                   IF store[k] # NoRow /\ store[k].expires_at # Null
                                       /\ store[k].expires_at < now
                   THEN NoRow ELSE store[k]]
    /\ hist' = [hist EXCEPT !.answer = [op |-> "delete", key |-> "", result |-> TRUE]]
    /\ UNCHANGED <<now, ctx>>
    /\ SQLiteOnly

\* cleanup(): UPDATE clearing the locks past their lock_expires_at
SqlCleanupLocks(p) ==
    /\ manager = NoManager
    /\ pc[p] = "cleanupLocks"
    /\ pc' = [pc EXCEPT ![p] = "idle"]
    /\ store' = [k \in LockedKeys |->
                   IF store[k] # NoRow /\ store[k].lock_expires_at # Null
                                       /\ store[k].lock_expires_at < now
                   THEN [store[k] EXCEPT !.lock_owner = Null, !.lock_expires_at = Null]
                   ELSE store[k]]
    /\ hist' = [hist EXCEPT !.answer = [op |-> "cleanup", key |-> "", result |-> TRUE]]
    /\ UNCHANGED <<now, ctx>>
    /\ SQLiteOnly

SqlTick ==
    /\ now < MaxTime
    /\ now' = now + 1
    /\ UNCHANGED <<store, hist, pc, ctx>>
    /\ SQLiteOnly

SQLiteNext ==
    \/ \E k \in LockedKeys, e \in {NoExpiresIn, ExpiresIn} : SqlSet(k, 1, e)
    \/ \E k \in LockedKeys : SqlDel(k)
    \/ \E k \in LockedKeys : SqlAcquireLock(k)
    \/ \E k \in LockedKeys : SqlReleaseLock(k)
    \/ \E p \in Procs, k \in LockedKeys : SqlIsLockExists(p, k)
    \/ \E p \in Procs : SqlClearLock(p)
    \/ \E p \in Procs : SqlCleanup(p)
    \/ \E p \in Procs : SqlCleanupLocks(p)
    \/ SqlTick

SQLiteSpec == SQLiteInit /\ [][SQLiteNext]_vars

\* the step is the answer of the call op(key)
SqlAnswered(op, key) ==
    /\ now' = now
    /\ hist'.answer.op = op
    /\ hist'.answer.key = key

\* C40: the lock of a key does not depend on the value stored under the key:
\* an acquireLock(k) made while, by the answers given, no unexpired lock is
\* held on k is answered true, whether a value is stored under k or not, and
\* a set(k) or a del(k) leaves the lock of k as it was, held or not held.
C40_LockIndependentOfValue ==
    [][\A k \in LockedKeys :
          /\ (SqlAnswered("acquireLock", k) /\ ~SqlHeldByAnswers(hist, k, now))
                => hist'.answer.result
          /\ (SqlAnswered("set", k) \/ SqlAnswered("del", k))
                => (rowLocked(store'[k], now) <=> rowLocked(store[k], now))]_vars

====
